---- MODULE Spec2Model ----
(***************************************************************************)
(* Timeline ingestion pipeline of PATHFINDER-WEB:                          *)
(*   services/timeline/converter.py   coordinate / time / numeric          *)
(*                                    normalisation                        *)
(*   services/timeline/validator.py   record validation, parse summary     *)
(*   services/timeline/json_parser.py segment processors, buffered and     *)
(*                                    streaming parsers                    *)
(*                                                                         *)
(* Python values are tagged records [k, n, f, s]:                          *)
(*   k = "none"   None                                                     *)
(*   k = "float"  the number n + f/10000, with f in 0..9999                *)
(*   k = "nan"    the float NaN                                            *)
(*   k = "numstr" a string holding the decimal numeral of n + f/10000      *)
(*   k = "str"    any other string, s its text                             *)
(* Timestamps strings are records [k, local, off] (hours):                 *)
(*   k = "absent" key missing     k = "null" JSON null   k = "empty" ""    *)
(*   k = "bad"    not ISO-8601    k = "naive" no offset  k = "Z" suffix Z  *)
(*   k = "offset" explicit offset off                                      *)
(***************************************************************************)
EXTENDS Integers, Sequences, FiniteSets, Bags, TLC

VARIABLES doc, username, seekable, errors, warnings, data_ret, stream, vcall,
          scall, ccall, batch, total_records, total_saved, copy_calls, response

\* the local state of the /fast-upload handler and the bulk loads it has made
handler == <<batch, total_records, total_saved, copy_calls, response>>

vars == <<doc, username, seekable, errors, warnings, data_ret, stream, vcall,
          scall, ccall, batch, total_records, total_saved, copy_calls, response>>

----------------------------------------------------------------------------
(* Python values *)

None == [k |-> "none", n |-> 0, f |-> 0, s |-> ""]
Float(n, f) == [k |-> "float", n |-> n, f |-> f, s |-> ""]
NaN == [k |-> "nan", n |-> 0, f |-> 0, s |-> ""]
NumStr(n, f) == [k |-> "numstr", n |-> n, f |-> f, s |-> ""]
Str(s) == [k |-> "str", n |-> 0, f |-> 0, s |-> s]

IsNone(v) == v.k = "none"

\* float(v): [ok |-> FALSE] stands for ValueError / TypeError
float(v) ==
    CASE v.k = "float" -> [ok |-> TRUE, v |-> v]
      [] v.k = "nan" -> [ok |-> TRUE, v |-> NaN]
      [] v.k = "numstr" -> [ok |-> TRUE, v |-> Float(v.n, v.f)]
      [] v.k = "str" /\ v.s = "nan" -> [ok |-> TRUE, v |-> NaN]
      [] OTHER -> [ok |-> FALSE, v |-> None]

\* IEEE-754 comparisons: every comparison with NaN is false
FloatLt(a, b) == a.k = "float" /\ b.k = "float"
                 /\ (a.n < b.n \/ (a.n = b.n /\ a.f < b.f))
FloatLe(a, b) == a.k = "float" /\ b.k = "float"
                 /\ (a.n < b.n \/ (a.n = b.n /\ a.f <= b.f))

\* truth value of a float or None in a condition
Truthy(v) == ~IsNone(v) /\ ~(v.k = "float" /\ v.n = 0 /\ v.f = 0)

----------------------------------------------------------------------------
(* config.py *)

INPUT_TIMEZONE == 9

max_latitude == Float(90, 0)
min_latitude == Float(-90, 0)
max_longitude == Float(180, 0)
min_longitude == Float(-180, 0)
max_distance_meters == Float(1000000, 0)
min_probability == Float(0, 0)
max_probability == Float(1, 0)

----------------------------------------------------------------------------
(* converter.py *)

NoTime == [k |-> "null", local |-> 0, off |-> 0]
AbsentTime == [k |-> "absent", local |-> 0, off |-> 0]
Iso(local, off) == [k |-> "offset", local |-> local, off |-> off]

\* a time value that is falsy in Python: missing (.get gives None), null, ""
TimeFalsy(t) == t.k \in {"absent", "null", "empty"}

\* the conversion reading a timestamp without offset as UTC
convert_timestamp_naive_as_utc(t) ==
    CASE TimeFalsy(t) -> NoTime
      [] t.k = "bad" -> NoTime
      [] t.k = "naive" -> Iso(t.local, 0)
      [] t.k = "Z" -> Iso(t.local, 0)
      [] OTHER -> Iso(t.local - t.off, 0)

\* returns the aware UTC datetime as Iso(utc, 0), or NoTime for None
convert_timestamp_to_utc(t) ==
    CASE TimeFalsy(t) -> NoTime
      [] t.k = "bad" -> NoTime
      [] t.k = "naive" -> Iso(t.local - INPUT_TIMEZONE, 0)
      [] t.k = "Z" -> Iso(t.local, 0)
      [] OTHER -> Iso(t.local - t.off, 0)

normalize_numeric_value(v) ==
    IF IsNone(v) \/ (v.k = "str" /\ v.s = "")
    THEN None
    ELSE IF float(v).ok THEN float(v).v ELSE None

NoCoords == [lat |-> None, lng |-> None]
AbsentCoord == [present |-> FALSE, prefix |-> "", deg |-> FALSE, sep |-> ",", parts |-> <<>>]
CoordStr(prefix, deg, sep, parts) ==
    [present |-> TRUE, prefix |-> prefix, deg |-> deg, sep |-> sep, parts |-> parts]

\* "geo:35.639772,139.670222": drop "geo:", split on ",", float the first two
extract_geo_coordinates(c) ==
    IF ~c.present \/ Len(c.parts) = 0
    THEN NoCoords
    ELSE IF Len(c.parts) >= 2
         THEN LET headOk == c.prefix \in {"", "geo:"} /\ ~c.deg /\ float(c.parts[1]).ok
                  nextOk == ~c.deg /\ float(c.parts[2]).ok
              IN  IF headOk /\ nextOk
                  THEN [lat |-> float(c.parts[1]).v, lng |-> float(c.parts[2]).v]
                  ELSE NoCoords
         ELSE NoCoords

\* "35.639772°, 139.670222°": drop "°", split on ", ", float exactly two
parse_android_coordinates(c) ==
    IF ~c.present \/ Len(c.parts) = 0
    THEN NoCoords
    ELSE IF c.sep = ", " /\ Len(c.parts) = 2 /\ c.prefix = ""
            /\ float(c.parts[1]).ok /\ float(c.parts[2]).ok
         THEN [lat |-> float(c.parts[1]).v, lng |-> float(c.parts[2]).v]
         ELSE NoCoords

\* the time column written without its offset, as strftime('%Y-%m-%dT%H:%M:%S')
normalize_time_without_offset(t) ==
    IF TimeFalsy(t) \/ convert_timestamp_to_utc(t).k = "null"
    THEN (IF TimeFalsy(t) THEN t ELSE NoTime)
    ELSE [k |-> "naive", local |-> convert_timestamp_to_utc(t).local, off |-> 0]

\* one time column of normalize_record: a falsy value is left as it is
normalize_time(t) == IF TimeFalsy(t) THEN t ELSE convert_timestamp_to_utc(t)

normalize_record(r) ==
    [r EXCEPT !.start_time = normalize_time(r.start_time),
              !.end_time = normalize_time(r.end_time),
              !.point_time = normalize_time(r.point_time),
              !.latitude = normalize_numeric_value(r.latitude),
              !.longitude = normalize_numeric_value(r.longitude),
              !.activity_distanceMeters = normalize_numeric_value(r.activity_distanceMeters),
              !.visit_probability = normalize_numeric_value(r.visit_probability),
              !.activity_probability = normalize_numeric_value(r.activity_probability),
              !.gpx_elevation = normalize_numeric_value(r.gpx_elevation),
              !.gpx_speed = normalize_numeric_value(r.gpx_speed),
              !.gpx_point_sequence = normalize_numeric_value(r.gpx_point_sequence)]

----------------------------------------------------------------------------
(* validator.py: every check takes the warning list w and returns the       *)
(* verdict with the list as the check leaves it (_add_warning appends)      *)

Ret(ok, w) == [ok |-> ok, w |-> w]

\* validate_coordinates with the bounds excluded
validate_coordinates_exclusive(lat, lng, w) ==
    IF IsNone(lat) \/ IsNone(lng)
    THEN Ret(TRUE, w)
    ELSE IF ~float(lat).ok \/ ~float(lng).ok
         THEN Ret(FALSE, Append(w, "coordinate conversion error"))
         ELSE IF ~(FloatLt(min_latitude, float(lat).v) /\ FloatLt(float(lat).v, max_latitude))
              THEN Ret(FALSE, Append(w, "latitude out of range"))
              ELSE IF ~(FloatLt(min_longitude, float(lng).v) /\ FloatLt(float(lng).v, max_longitude))
                   THEN Ret(FALSE, Append(w, "longitude out of range"))
                   ELSE Ret(TRUE, w)

validate_coordinates(lat, lng, w) ==
    IF IsNone(lat) \/ IsNone(lng)
    THEN Ret(TRUE, w)
    ELSE IF ~float(lat).ok \/ ~float(lng).ok
         THEN Ret(FALSE, Append(w, "coordinate conversion error"))
         ELSE IF ~(FloatLe(min_latitude, float(lat).v) /\ FloatLe(float(lat).v, max_latitude))
              THEN Ret(FALSE, Append(w, "latitude out of range"))
              ELSE IF ~(FloatLe(min_longitude, float(lng).v) /\ FloatLe(float(lng).v, max_longitude))
                   THEN Ret(FALSE, Append(w, "longitude out of range"))
                   ELSE Ret(TRUE, w)

validate_probability(prob, w) ==
    IF IsNone(prob)
    THEN Ret(TRUE, w)
    ELSE IF ~float(prob).ok
         THEN Ret(FALSE, Append(w, "probability conversion error"))
         ELSE IF ~(FloatLe(min_probability, float(prob).v) /\ FloatLe(float(prob).v, max_probability))
              THEN Ret(FALSE, Append(w, "probability out of range"))
              ELSE Ret(TRUE, w)

\* validate_distance with the upper bound excluded
validate_distance_exclusive(distance, w) ==
    IF IsNone(distance)
    THEN Ret(TRUE, w)
    ELSE IF ~float(distance).ok
         THEN Ret(FALSE, Append(w, "distance conversion error"))
         ELSE IF FloatLt(float(distance).v, Float(0, 0))
              THEN Ret(FALSE, Append(w, "distance negative"))
              ELSE IF FloatLe(max_distance_meters, float(distance).v)
                   THEN Ret(FALSE, Append(w, "distance over limit"))
                   ELSE Ret(TRUE, w)

validate_distance(distance, w) ==
    IF IsNone(distance)
    THEN Ret(TRUE, w)
    ELSE IF ~float(distance).ok
         THEN Ret(FALSE, Append(w, "distance conversion error"))
         ELSE IF FloatLt(float(distance).v, Float(0, 0))
              THEN Ret(FALSE, Append(w, "distance negative"))
              ELSE IF FloatLt(max_distance_meters, float(distance).v)
                   THEN Ret(FALSE, Append(w, "distance over limit"))
                   ELSE Ret(TRUE, w)

validate_timestamp(t, w) ==
    IF TimeFalsy(t)
    THEN Ret(TRUE, w)
    ELSE IF t.k = "bad"
         THEN Ret(FALSE, Append(w, "timestamp parse error"))
         ELSE Ret(TRUE, w)

\* the checks of validate_record in turn; acc is is_valid and the warning list
\* so far, and a check that fails leaves is_valid false
After(acc, r) == Ret(acc.ok /\ r.ok, r.w)

check_coordinates(record, acc) ==
    IF ~IsNone(record.latitude) \/ ~IsNone(record.longitude)
    THEN After(acc, validate_coordinates(record.latitude, record.longitude, acc.w))
    ELSE acc

check_probability(prob, acc) == After(acc, validate_probability(prob, acc.w))

check_distance(distance, acc) == After(acc, validate_distance(distance, acc.w))

check_timestamp(t, acc) ==
    IF ~TimeFalsy(t) THEN After(acc, validate_timestamp(t, acc.w)) ELSE acc

\* validate_record refusing, with a warning, a record without a position
validate_record_position_required(record, w) ==
    IF IsNone(record.latitude) \/ IsNone(record.longitude)
    THEN Ret(FALSE, Append(w, "position missing"))
    ELSE check_timestamp(record.point_time,
           check_timestamp(record.end_time,
             check_timestamp(record.start_time,
               check_distance(record.activity_distanceMeters,
                 check_probability(record.activity_probability,
                   check_probability(record.visit_probability,
                     check_coordinates(record, Ret(TRUE, w))))))))

validate_record(record, w) ==
    check_timestamp(record.point_time,
      check_timestamp(record.end_time,
        check_timestamp(record.start_time,
          check_distance(record.activity_distanceMeters,
            check_probability(record.activity_probability,
              check_probability(record.visit_probability,
                check_coordinates(record, Ret(TRUE, w))))))))

\* the summary of a validator that counts a warning against validity
get_validation_summary_strict ==
    [errors |-> errors, warnings |-> warnings,
     error_count |-> Len(errors), warning_count |-> Len(warnings),
     is_valid |-> Len(errors) = 0 /\ Len(warnings) = 0]

get_validation_summary ==
    [errors |-> errors, warnings |-> warnings,
     error_count |-> Len(errors), warning_count |-> Len(warnings),
     is_valid |-> Len(errors) = 0]

----------------------------------------------------------------------------
(* json_parser.py: the segment processors.  A unit is a record             *)
(*   [isMap, startTime, endTime, timelinePath, visit, activity]            *)
(* with isMap = FALSE for a unit that is not a mapping.  A processor       *)
(* returns the records of the unit, the warning list as it leaves it, and  *)
(* raised = TRUE when the call ends in an exception.                       *)

Record(type, start_time, end_time, point_time, coords, visit_probability, visit_placeId, visit_semanticType, activity_distanceMeters, activity_type, activity_probability, user) ==
    [type |-> type, start_time |-> start_time, end_time |-> end_time,
     point_time |-> point_time, latitude |-> coords.lat, longitude |-> coords.lng,
     visit_probability |-> visit_probability, visit_placeId |-> visit_placeId,
     visit_semanticType |-> visit_semanticType,
     activity_distanceMeters |-> activity_distanceMeters,
     activity_type |-> activity_type, activity_probability |-> activity_probability,
     username |-> user, gpx_data_source |-> None, gpx_track_name |-> None,
     gpx_elevation |-> None, gpx_speed |-> None, gpx_point_sequence |-> None]

\* dict.get(key) of a time key: None when the key is missing
get_time(t) == IF t.k = "absent" THEN NoTime ELSE t

\* the distance read from the top candidate
activity_distance_of_candidate(activity) == activity.candidateDistanceMeters

\* activity.get('distanceMeters'): the activity's own key, not the top candidate's
activity_distance(activity) == activity.distanceMeters

\* a refused record taking the records before it along
append_if_valid_or_clear(acc, normalized_record, v) ==
    [records |-> IF v.ok THEN Append(acc.records, normalized_record) ELSE <<>>,
     w |-> v.w]

\* records.append(normalized_record) when validate_record accepted it
append_if_valid(acc, normalized_record, v) ==
    [records |-> IF v.ok THEN Append(acc.records, normalized_record) ELSE acc.records,
     w |-> v.w]

validate_and_append(acc, normalized_record) ==
    append_if_valid(acc, normalized_record, validate_record(normalized_record, acc.w))

\* emit leaving out, silently, a record without a position
emit_position_required(acc, record) ==
    IF IsNone(normalize_record(record).latitude)
    THEN acc
    ELSE validate_and_append(acc, normalize_record(record))

\* normalize_record, validate_record, append when valid
emit(acc, record) == validate_and_append(acc, normalize_record(record))

\* the path record stamped with the segment's start in place of the point's time
timelinePath_record_segment_time(segment, user, path) ==
    Record("timelinePath", get_time(segment.startTime), get_time(segment.endTime),
           get_time(segment.startTime), parse_android_coordinates(path.point),
           None, None, None, None, None, None, user)

timelinePath_record(segment, user, path) ==
    Record("timelinePath", get_time(segment.startTime), get_time(segment.endTime),
           get_time(path.time), parse_android_coordinates(path.point),
           None, None, None, None, None, None, user)

RECURSIVE timelinePath_records(_, _, _, _)
timelinePath_records(segment, user, i, acc) ==
    IF i > Len(segment.timelinePath.pts)
    THEN acc
    ELSE timelinePath_records(segment, user, i + 1,
             emit(acc, timelinePath_record(segment, user, segment.timelinePath.pts[i])))

\* the visit record read with the other dialect's place key
android_visit_record_placeID(segment, user) ==
    Record("visit", get_time(segment.startTime), get_time(segment.endTime), NoTime,
           parse_android_coordinates(segment.visit.location),
           segment.visit.probability, segment.visit.placeID, segment.visit.semanticType,
           None, None, None, user)

android_visit_record(segment, user) ==
    Record("visit", get_time(segment.startTime), get_time(segment.endTime), NoTime,
           parse_android_coordinates(segment.visit.location),
           segment.visit.probability, segment.visit.placeId, segment.visit.semanticType,
           None, None, None, user)

\* the activity record keeping the place of the segment's visit
android_activity_record_with_place(segment, user, key) ==
    Record(IF key = "start" THEN "activity_start" ELSE "activity_end",
           get_time(segment.startTime), get_time(segment.endTime), NoTime,
           parse_android_coordinates(IF key = "start" THEN segment.activity.start
                                     ELSE segment.activity.end),
           None, segment.visit.placeId, segment.visit.semanticType,
           activity_distance(segment.activity), segment.activity.type,
           segment.activity.probability, user)

android_activity_record(segment, user, key) ==
    Record(IF key = "start" THEN "activity_start" ELSE "activity_end",
           get_time(segment.startTime), get_time(segment.endTime), NoTime,
           parse_android_coordinates(IF key = "start" THEN segment.activity.start
                                     ELSE segment.activity.end),
           None, None, None,
           activity_distance(segment.activity), segment.activity.type,
           segment.activity.probability, user)

android_timelinePath(segment, user, acc) ==
    IF segment.timelinePath.present THEN timelinePath_records(segment, user, 1, acc)
    ELSE acc

android_visit(segment, user, acc) ==
    IF segment.visit.present THEN emit(acc, android_visit_record(segment, user)) ELSE acc

\* the endpoint left out when its coordinate string cannot be parsed
android_activity_parsed_only(segment, user, key, endpoint, acc) ==
    IF segment.activity.present /\ endpoint.present
       /\ ~IsNone(parse_android_coordinates(endpoint).lat)
    THEN emit(acc, android_activity_record(segment, user, key))
    ELSE acc

android_activity(segment, user, key, endpoint, acc) ==
    IF segment.activity.present /\ endpoint.present
    THEN emit(acc, android_activity_record(segment, user, key))
    ELSE acc

returned(acc) == [records |-> acc.records, w |-> acc.w, raised |-> FALSE]

process_android_segment(segment, user, w) ==
    IF ~segment.isMap
    THEN [records |-> <<>>, w |-> w, raised |-> TRUE]
    ELSE returned(
           android_activity(segment, user, "end", segment.activity.end,
             android_activity(segment, user, "start", segment.activity.start,
               android_visit(segment, user,
                 android_timelinePath(segment, user, [records |-> <<>>, w |-> w])))))

iphone_visit_record(segment, user) ==
    Record("visit", get_time(segment.startTime), get_time(segment.endTime), NoTime,
           extract_geo_coordinates(segment.visit.location),
           segment.visit.probability, segment.visit.placeID, segment.visit.semanticType,
           None, None, None, user)

iphone_activity_record(segment, user, type, coords) ==
    Record(type, get_time(segment.startTime), get_time(segment.endTime), NoTime,
           coords, None, None, None,
           activity_distance(segment.activity), segment.activity.type,
           segment.activity.probability, user)

iphone_visit(segment, user, acc) ==
    IF segment.visit.present THEN emit(acc, iphone_visit_record(segment, user)) ELSE acc

iphone_activity(segment, user, type, coords, acc) ==
    IF segment.activity.present /\ Truthy(coords.lat) /\ Truthy(coords.lng)
    THEN emit(acc, iphone_activity_record(segment, user, type, coords))
    ELSE acc

process_iphone_item(segment, user, w) ==
    IF ~segment.isMap
    THEN [records |-> <<>>, w |-> w, raised |-> TRUE]
    ELSE returned(
           iphone_activity(segment, user, "activity_end",
                           extract_geo_coordinates(segment.activity.end),
             iphone_activity(segment, user, "activity_start",
                             extract_geo_coordinates(segment.activity.start),
               iphone_visit(segment, user, [records |-> <<>>, w |-> w]))))

----------------------------------------------------------------------------
(* Documents.  A document is [top, hasSegments, segmentsIsList, units]:    *)
(*   top = "object"  a mapping; hasSegments says whether it has the key    *)
(*                   semanticSegments, segmentsIsList whether its value is *)
(*                   a sequence, units are the elements of that sequence   *)
(*   top = "array"   a sequence, units are its elements                    *)
(*   top = "scalar"  neither                                               *)

AndroidDoc(units) ==
    [top |-> "object", hasSegments |-> TRUE, segmentsIsList |-> TRUE, units |-> units]
IphoneDoc(units) ==
    [top |-> "array", hasSegments |-> FALSE, segmentsIsList |-> FALSE, units |-> units]

\* data[:n]
Prefix(seq, n) == SubSeq(seq, 1, IF Len(seq) < n THEN Len(seq) ELSE n)

(* validator.py: structure checks; e is the error list *)

\* detect_format looking at the first element alone
detect_format_first_item(data, e) ==
    IF data.top = "array" /\ Len(data.units) > 0
       /\ data.units[1].isMap
       /\ data.units[1].startTime.k # "absent"
    THEN [tag |-> "iphone", e |-> e, raised |-> FALSE]
    ELSE IF data.top = "object" /\ data.hasSegments
         THEN [tag |-> "android", e |-> e, raised |-> FALSE]
         ELSE [tag |-> "none", e |-> Append(e, "format detection error"), raised |-> TRUE]

detect_format(data, e) ==
    IF data.top = "array" /\ Len(data.units) > 0
       /\ (\A i \in DOMAIN Prefix(data.units, 3) : data.units[i].isMap)
       /\ data.units[1].startTime.k # "absent"
    THEN [tag |-> "iphone", e |-> e, raised |-> FALSE]
    ELSE IF data.top = "object" /\ data.hasSegments
         THEN [tag |-> "android", e |-> e, raised |-> FALSE]
         ELSE [tag |-> "none", e |-> Append(e, "format detection error"), raised |-> TRUE]

validate_android_structure(data, e, w) ==
    IF data.top # "object"
    THEN [ok |-> FALSE, e |-> Append(e, "android must be dict"), w |-> w]
    ELSE IF ~data.hasSegments
         THEN [ok |-> FALSE, e |-> Append(e, "missing required field"), w |-> w]
         ELSE IF ~data.segmentsIsList
              THEN [ok |-> FALSE, e |-> Append(e, "semanticSegments must be list"), w |-> w]
              ELSE IF Len(data.units) = 0
                   THEN [ok |-> TRUE, e |-> e, w |-> Append(w, "semanticSegments empty")]
                   ELSE [ok |-> TRUE, e |-> e, w |-> w]

\* the empty sequence refused with an error
validate_iphone_structure_empty_refused(data, e, w) ==
    IF data.top # "array"
    THEN [ok |-> FALSE, e |-> Append(e, "iphone must be list"), w |-> w]
    ELSE IF Len(data.units) = 0
         THEN [ok |-> FALSE, e |-> Append(e, "data empty"), w |-> w]
         ELSE IF ~data.units[1].isMap
              THEN [ok |-> FALSE, e |-> Append(e, "element must be dict"), w |-> w]
              ELSE IF data.units[1].startTime.k = "absent"
                   THEN [ok |-> FALSE, e |-> Append(e, "missing required field"), w |-> w]
                   ELSE [ok |-> TRUE, e |-> e, w |-> w]

validate_iphone_structure(data, e, w) ==
    IF data.top # "array"
    THEN [ok |-> FALSE, e |-> Append(e, "iphone must be list"), w |-> w]
    ELSE IF Len(data.units) = 0
         THEN [ok |-> TRUE, e |-> e, w |-> Append(w, "data empty")]
         ELSE IF ~data.units[1].isMap
              THEN [ok |-> FALSE, e |-> Append(e, "element must be dict"), w |-> w]
              ELSE IF data.units[1].startTime.k = "absent"
                   THEN [ok |-> FALSE, e |-> Append(e, "missing required field"), w |-> w]
                   ELSE [ok |-> TRUE, e |-> e, w |-> w]

validate_json_structure(data, expected_format, e, w) ==
    CASE expected_format = "android" -> validate_android_structure(data, e, w)
      [] expected_format = "iphone" -> validate_iphone_structure(data, e, w)
      [] OTHER -> [ok |-> FALSE, e |-> Append(e, "structure validation error"), w |-> w]

(* json_parser.py: the buffered parser *)

process_unit(format, unit, user, w) ==
    IF format = "android" THEN process_android_segment(unit, user, w)
    ELSE process_iphone_item(unit, user, w)

\* the records made before the exception returned instead of the empty list
parse_result_partial(r, e) == [records |-> r.records, e |-> e, w |-> r.w]

parse_result(r, e) ==
    [records |-> IF r.raised THEN <<>> ELSE r.records, e |-> e, w |-> r.w]

\* assignment in place of records.extend(...)
extend_overwrite(acc, r) == [records |-> r.records, w |-> r.w, raised |-> r.raised]

\* records.extend(...) of one unit's records
extend(acc, r) == [records |-> acc.records \o r.records, w |-> r.w, raised |-> r.raised]

RECURSIVE process_units(_, _, _, _, _)
process_units(format, units, user, i, acc) ==
    IF i > Len(units) \/ acc.raised
    THEN acc
    ELSE process_units(format, units, user, i + 1,
                       extend(acc, process_unit(format, units[i], user, acc.w)))

\* the loop over the units; an exception in it makes the result the empty list
parse_units(data, user, f, s) ==
    parse_result(process_units(f.tag, data.units, user, 1,
                               [records |-> <<>>, w |-> s.w, raised |-> FALSE]), s.e)

parse_validated(data, user, f, s) ==
    IF ~s.ok THEN [records |-> <<>>, e |-> s.e, w |-> s.w]
    ELSE parse_units(data, user, f, s)

parse_detected(data, user, f, w) ==
    IF f.raised THEN [records |-> <<>>, e |-> f.e, w |-> w]
    ELSE parse_validated(data, user, f, validate_json_structure(data, f.tag, f.e, w))

parse_json_data(data, user, e, w) == parse_detected(data, user, detect_format(data, e), w)

(* json_parser.py: the streaming parser *)

\* the first-token test without its array branch
first_token_format_object_only(data) ==
    CASE data.top = "object" -> "android"
      [] OTHER -> "unknown"

\* the dialect read from the first structural token
first_token_format(data) ==
    CASE data.top = "object" -> "android"
      [] data.top = "array" -> "iphone"
      [] OTHER -> "unknown"

\* as stream_items, reading both dialects at the prefix 'item'
stream_items_top_level(data, format) ==
    IF format \in {"android", "iphone"} /\ data.top = "array" THEN data.units ELSE <<>>

\* the elements ijson.items yields for the dialect's path
stream_items(data, format) ==
    CASE format = "android" ->
           IF data.top = "object" /\ data.hasSegments /\ data.segmentsIsList
           THEN data.units ELSE <<>>
      [] format = "iphone" -> IF data.top = "array" THEN data.units ELSE <<>>
      [] OTHER -> <<>>

\* the generator runs until its next yield, its end or an exception
RECURSIVE resume(_, _, _, _)
resume_with(data, user, st, r) ==
    IF r.raised
    THEN [st |-> [st EXCEPT !.pc = "raised", !.pos = st.pos + 1], w |-> r.w]
    ELSE resume(data, user, [st EXCEPT !.pos = st.pos + 1, !.pending = r.records], r.w)

\* as resume, taking the next element as soon as the last record of a unit is
\* handed on
resume_read_ahead(data, user, st, w) ==
    IF Len(st.pending) > 0
    THEN IF Len(st.pending) = 1 /\ st.pos < Len(stream_items(data, st.format))
            /\ stream_items(data, st.format)[st.pos + 1].isMap
         THEN [st |-> [st EXCEPT !.pos = st.pos + 1,
                                 !.pending = process_unit(st.format,
                                                stream_items(data, st.format)[st.pos + 1],
                                                user, w).records,
                                 !.yielded = Append(st.yielded, Head(st.pending))],
               w |-> process_unit(st.format, stream_items(data, st.format)[st.pos + 1],
                                  user, w).w]
         ELSE [st |-> [st EXCEPT !.pending = Tail(st.pending),
                                 !.yielded = Append(st.yielded, Head(st.pending))],
               w |-> w]
    ELSE IF st.pos >= Len(stream_items(data, st.format))
         THEN [st |-> [st EXCEPT !.pc = "done"], w |-> w]
         ELSE resume_with(data, user, st,
                          process_unit(st.format, stream_items(data, st.format)[st.pos + 1],
                                       user, w))

resume(data, user, st, w) ==
    IF Len(st.pending) > 0
    THEN [st |-> [st EXCEPT !.pending = Tail(st.pending),
                            !.yielded = Append(st.yielded, Head(st.pending))],
          w |-> w]
    ELSE IF st.pos >= Len(stream_items(data, st.format))
         THEN [st |-> [st EXCEPT !.pc = "done"], w |-> w]
         ELSE resume_with(data, user, st,
                          process_unit(st.format, stream_items(data, st.format)[st.pos + 1],
                                       user, w))

\* parse_json_stream without the seekable() test
parse_json_stream_unchecked(data, user, canSeek, st, w) ==
    IF st.pc = "new"
    THEN resume(data, user,
                [st EXCEPT !.pc = "open", !.format = first_token_format(data)], w)
    ELSE resume(data, user, st, w)

parse_json_stream(data, user, canSeek, st, w) ==
    IF st.pc = "new"
    THEN IF ~canSeek
         THEN [st |-> [st EXCEPT !.pc = "raised", !.format = first_token_format(data)],
               w |-> w]
         ELSE resume(data, user,
                     [st EXCEPT !.pc = "open", !.format = first_token_format(data)], w)
    ELSE resume(data, user, st, w)

----------------------------------------------------------------------------
(* Inputs *)

MaxUnits == 2
MaxWarnings == 2

Users == {"alice", "bob"}

NoPath == [present |-> FALSE, pts |-> <<>>]
Path(pts) == [present |-> TRUE, pts |-> pts]
NoVisit == [present |-> FALSE, probability |-> None, placeId |-> None, placeID |-> None,
            semanticType |-> None, location |-> AbsentCoord]
Visit(location, probability) ==
    [present |-> TRUE, probability |-> probability, placeId |-> Str("p1"),
     placeID |-> Str("P1"), semanticType |-> Str("Home"), location |-> location]
NoActivity == [present |-> FALSE, distanceMeters |-> None, candidateDistanceMeters |-> None, type |-> None,
               probability |-> None, start |-> AbsentCoord, end |-> AbsentCoord]
Activity(start, end, distanceMeters, probability) ==
    [present |-> TRUE, distanceMeters |-> distanceMeters, candidateDistanceMeters |-> None,
     type |-> Str("WALKING"),
     probability |-> probability, start |-> start, end |-> end]
Unit(startTime, endTime, timelinePath, visit, activity) ==
    [isMap |-> TRUE, startTime |-> startTime, endTime |-> endTime,
     timelinePath |-> timelinePath, visit |-> visit, activity |-> activity]
NotAMapping ==
    [isMap |-> FALSE, startTime |-> AbsentTime, endTime |-> AbsentTime,
     timelinePath |-> NoPath, visit |-> NoVisit, activity |-> NoActivity]

T0 == [k |-> "Z", local |-> 10, off |-> 0]
T1 == [k |-> "Z", local |-> 11, off |-> 0]
Times == {AbsentTime, NoTime, [k |-> "empty", local |-> 0, off |-> 0],
          [k |-> "bad", local |-> 0, off |-> 0], [k |-> "naive", local |-> 10, off |-> 0],
          T0, Iso(10, -5), Iso(3, 9)}

\* "35.0, 139.0": read by both dialects
Plain(lat, lng) == CoordStr("", FALSE, ", ", <<lat, lng>>)
\* "35.0°, 139.0°"
Degrees(lat, lng) == CoordStr("", TRUE, ", ", <<lat, lng>>)
\* "geo:35.0,139.0"
Geo(lat, lng) == CoordStr("geo:", FALSE, ",", <<lat, lng>>)
Lat35 == NumStr(35, 0)
Lng139 == NumStr(139, 0)

LatTokens == {Lat35, NumStr(0, 0), NumStr(90, 0), NumStr(90, 1), NumStr(-90, 0),
              Str("abc"), Str("nan")}
LngTokens == {Lng139, NumStr(0, 0), NumStr(180, 1)}

\* every shape of string around one good pair; every pair in the three usual
\* shapes; no key, the empty string, one part, three parts
CoordStrs ==
    {AbsentCoord, CoordStr("", FALSE, ",", <<>>), CoordStr("", FALSE, ", ", <<Lat35>>),
     CoordStr("", FALSE, ", ", <<Lat35, Lng139, Lng139>>),
     CoordStr("geo:", FALSE, ",", <<Lat35, Lng139, Lng139>>)}
    \cup {CoordStr(p, d, sep, <<Lat35, Lng139>>) :
             p \in {"", "geo:", "GeoCoordinates: "}, d \in BOOLEAN, sep \in {", ", ","}}
    \cup {Plain(a, b) : a \in LatTokens, b \in LngTokens}
    \cup {Degrees(a, b) : a \in LatTokens, b \in LngTokens}
    \cup {Geo(a, b) : a \in LatTokens, b \in LngTokens}

Probabilities == {None, Float(0, 9000), Float(1, 0), Float(1, 1), Str("abc")}
Distances == {None, Float(5, 0), Float(1000000, 0), Float(1000000, 1),
              Float(-1, 0), Str("nan")}
EndpointStrs == {AbsentCoord, Plain(Lat35, Lng139), Degrees(Lat35, Lng139),
                 Geo(Lat35, Lng139), Plain(NumStr(0, 0), Lng139), Geo(Str("abc"), Lng139)}
Points == {[time |-> T0, point |-> Degrees(Lat35, Lng139)],
           [time |-> T1, point |-> Plain(NumStr(90, 0), Lng139)],
           [time |-> Iso(3, 9), point |-> Geo(Lat35, Lng139)],
           [time |-> [k |-> "bad", local |-> 0, off |-> 0],
            point |-> Degrees(NumStr(90, 1), Lng139)]}

\* units that vary one sub-structure at a time
VisitUnits == {Unit(T0, T1, NoPath, Visit(c, p), NoActivity) :
                 c \in CoordStrs, p \in Probabilities}
TimeUnits == {Unit(st, et, NoPath, Visit(Plain(Lat35, Lng139), None), NoActivity) :
                st \in Times, et \in Times}
ActivityUnits == {Unit(T0, T1, NoPath, NoVisit, Activity(a, b, d, p)) :
                    a \in EndpointStrs, b \in EndpointStrs, d \in Distances,
                    p \in {Float(0, 5000), Float(1, 5000)}}
PathUnits == {Unit(T0, T1, Path(pts), NoVisit, NoActivity) :
                pts \in {<<>>} \cup {<<a>> : a \in Points}
                        \cup {<<a, b>> : a \in Points, b \in Points}}
\* activities whose top candidate holds a distanceMeters of its own
CandidateDistanceUnits ==
    {Unit(T0, T1, NoPath, NoVisit,
          [Activity(a, b, d, Float(0, 5000)) EXCEPT !.candidateDistanceMeters = Float(7, 0)]) :
       a \in {AbsentCoord, Plain(Lat35, Lng139)}, b \in {AbsentCoord, Degrees(Lat35, Lng139)},
       d \in {None, Float(5, 0), NumStr(5, 0)}}
\* a path of two points beside a visit and an activity with a start only
PathVisitActivity ==
    Unit(Iso(3, 9), T1,
         Path(<<[time |-> T1, point |-> Plain(NumStr(90, 0), Lng139)],
                [time |-> T0, point |-> Degrees(Lat35, Lng139)]>>),
         Visit(Plain(Lat35, Lng139), Float(0, 9000)),
         Activity(Degrees(Lat35, Lng139), AbsentCoord, Float(5, 0), Float(0, 5000)))
RichUnits == VisitUnits \cup TimeUnits \cup ActivityUnits \cup PathUnits
             \cup CandidateDistanceUnits \cup {PathVisitActivity}

\* the units of the longer documents
GoodVisit == Unit(T0, T1, NoPath, Visit(Plain(Lat35, Lng139), Float(0, 9000)), NoActivity)
BadCoordVisit ==
    Unit(T0, T1, NoPath,
         Visit(CoordStr("GeoCoordinates: ", FALSE, ", ", <<Lat35, Lng139>>), None),
         NoActivity)
BadProbabilityVisit ==
    Unit(T0, T1, NoPath, Visit(Plain(Lat35, Lng139), Float(1, 5000)), NoActivity)
GoodActivity ==
    Unit(T0, T1, NoPath, NoVisit,
         Activity(Plain(Lat35, Lng139), Plain(Lat35, NumStr(180, 1)),
                  Float(5, 0), Float(0, 5000)))
Mixed ==
    Unit(Iso(3, 9), AbsentTime,
         Path(<<[time |-> T0, point |-> Degrees(Lat35, Lng139)]>>),
         Visit(Plain(Lat35, Lng139), None),
         Activity(Plain(NumStr(0, 0), Lng139), Plain(Lat35, Lng139), Str("nan"), None))
CoreUnits == {GoodVisit, BadCoordVisit, BadProbabilityVisit, GoodActivity, Mixed, NotAMapping}

SeqsUpTo(S, n) == UNION {[1..m -> S] : m \in 0..n}

OddDocs ==
    {[top |-> "scalar", hasSegments |-> FALSE, segmentsIsList |-> FALSE, units |-> <<>>],
     [top |-> "object", hasSegments |-> FALSE, segmentsIsList |-> FALSE, units |-> <<>>],
     [top |-> "object", hasSegments |-> TRUE, segmentsIsList |-> FALSE, units |-> <<>>],
     IphoneDoc(<<Unit(AbsentTime, T1, NoPath, Visit(Plain(Lat35, Lng139), None), NoActivity)>>)}

RichDocs == {AndroidDoc(<<u>>) : u \in RichUnits} \cup {IphoneDoc(<<u>>) : u \in RichUnits}
CoreDocs == {AndroidDoc(q) : q \in SeqsUpTo(CoreUnits, MaxUnits)}
            \cup {IphoneDoc(q) : q \in SeqsUpTo(CoreUnits, MaxUnits)}
            \cup OddDocs

\* a good visit beside every visit unit, in both orders
PairDocs == {AndroidDoc(<<GoodVisit, u>>) : u \in VisitUnits}
            \cup {AndroidDoc(<<u, GoodVisit>>) : u \in VisitUnits}
            \cup {IphoneDoc(<<GoodVisit, u>>) : u \in VisitUnits}
            \cup {IphoneDoc(<<u, GoodVisit>>) : u \in VisitUnits}

\* a file, the caller's identifier, and whether the source can be rewound
Inputs == ((RichDocs \cup PairDocs) \X {"alice"} \X {TRUE})
          \cup (CoreDocs \X Users \X BOOLEAN)

----------------------------------------------------------------------------
(* The parser: one TimelineJSONParser with its validator, one file, and the *)
(* two ways a caller reads it.                                              *)

NewStream == [pc |-> "new", format |-> "unknown", pos |-> 0, pending |-> <<>>,
              yielded |-> <<>>]
NoCall == [called |-> FALSE, record |-> Record("none", NoTime, NoTime, NoTime, NoCoords,
                                               None, None, None, None, None, None, ""),
           ok |-> TRUE, nwarn |-> 0, nerr |-> 0]

\* no detect_format / validate_json_structure call made from outside the parser
NoStructureCall == [op |-> "none", tag |-> "none", ok |-> FALSE, raised |-> FALSE, nerr |-> 0]

\* no call of the converter made from outside the parser
NoConverterCall == [op |-> "none", record |-> NoCall.record, once |-> NoCall.record,
                    twice |-> NoCall.record, t |-> NoTime, utc |-> NoTime]

\* the handler has not answered; has_totals tells whether the answer's content
\* holds total_records and saved_records
NoResponse == [status |-> 0, has_totals |-> FALSE, total_records |-> 0, saved_records |-> 0]

\* BATCH_SIZE = 1000; batch = []; total_saved = 0; total_records = 0
HandlerIdle ==
    /\ batch = <<>>
    /\ total_records = 0
    /\ total_saved = 0
    /\ copy_calls = <<>>
    /\ response = NoResponse

Init ==
    /\ \E in \in Inputs : doc = in[1] /\ username = in[2] /\ seekable = in[3]
    /\ errors = <<>>
    /\ warnings = <<>>
    /\ data_ret = [called |-> FALSE, records |-> <<>>]
    /\ stream = NewStream
    /\ vcall = NoCall
    /\ scall = NoStructureCall
    /\ ccall = NoConverterCall
    /\ HandlerIdle

\* records = parser.parse_json_data(data, username)
ParseJsonData ==
    /\ ~data_ret.called
    /\ \E r \in {parse_json_data(doc, username, errors, warnings)} :
          /\ data_ret' = [called |-> TRUE, records |-> r.records]
          /\ errors' = r.e
          /\ warnings' = r.w
    /\ UNCHANGED <<doc, username, seekable, stream, vcall, scall, ccall, handler>>

\* next(parser.parse_json_stream(file_obj, username))
StreamNext ==
    /\ stream.pc \in {"new", "open"}
    /\ \E r \in {parse_json_stream(doc, username, seekable, stream, warnings)} :
          /\ stream' = r.st
          /\ warnings' = r.w
    /\ UNCHANGED <<doc, username, seekable, errors, data_ret, vcall, scall, ccall, handler>>

Next == ParseJsonData \/ StreamNext

Spec == Init /\ [][Next]_vars

----------------------------------------------------------------------------
(* The validator called on its own: validate_record on candidate records,   *)
(* reset between them.                                                      *)

Latitudes == {None, Float(-91, 9999), Float(-90, 0), Float(0, 0), Float(35, 0),
              Float(90, 0), Float(90, 1), NaN, Str("abc")}
Longitudes == {None, Float(-181, 9999), Float(-180, 0), Float(0, 0), Float(139, 0),
               Float(180, 0), Float(180, 1), NaN}
ProbabilityValues == {None, Float(-1, 9999), Float(0, 0), Float(0, 5000), Float(1, 0),
                      Float(1, 1), NaN, Str("abc")}
DistanceValues == {None, Float(-1, 9999), Float(0, 0), Float(5, 0), Float(1000000, 0),
                   Float(1000000, 1), NaN}

Candidate(lat, lng, visit_probability, distance, activity_probability, start_time) ==
    Record("visit", start_time, NoTime, NoTime, [lat |-> lat, lng |-> lng],
           visit_probability, None, None, distance, None, activity_probability, "alice")

\* coordinates alone, probabilities and distance alone, and some of each
Candidates ==
    {Candidate(lat, lng, None, None, None, NoTime) : lat \in Latitudes, lng \in Longitudes}
    \cup {Candidate(None, None, vp, None, ap, NoTime) :
             vp \in ProbabilityValues, ap \in ProbabilityValues}
    \cup {Candidate(None, None, None, d, None, NoTime) : d \in DistanceValues}
    \cup {Candidate(lat, Float(139, 0), vp, d, None, t) :
             lat \in {None, Float(90, 1)}, vp \in {Float(0, 5000), Float(1, 1)},
             d \in {Float(5, 0), Float(1000000, 1)},
             t \in {T0, [k |-> "bad", local |-> 0, off |-> 0]}}

InitValidator ==
    /\ doc = AndroidDoc(<<>>)
    /\ username = "alice"
    /\ seekable = TRUE
    /\ errors = <<>>
    /\ warnings = <<>>
    /\ data_ret = [called |-> FALSE, records |-> <<>>]
    /\ stream = NewStream
    /\ vcall = NoCall
    /\ scall = NoStructureCall
    /\ ccall = NoConverterCall
    /\ HandlerIdle

\* ok = validator.validate_record(record)
ValidateRecord ==
    /\ Len(warnings) < MaxWarnings
    /\ \E record \in Candidates :
          \E r \in {validate_record(record, warnings)} :
              /\ vcall' = [called |-> TRUE, record |-> record, ok |-> r.ok,
                           nwarn |-> Len(r.w) - Len(warnings), nerr |-> 0]
              /\ warnings' = r.w
    /\ UNCHANGED <<doc, username, seekable, errors, data_ret, stream, scall, ccall, handler>>

\* validator.reset()
Reset ==
    /\ errors' = <<>>
    /\ warnings' = <<>>
    /\ UNCHANGED <<doc, username, seekable, data_ret, stream, vcall, scall, ccall, handler>>

NextValidator == ValidateRecord \/ Reset

SpecValidator == InitValidator /\ [][NextValidator]_vars

----------------------------------------------------------------------------
(* One TimelineDataValidator called from outside the parser: format        *)
(* detection, structure validation, record validation and reset, in any    *)
(* order, on one document.                                                 *)

MaxItems == 4
MaxErrors == 2

NoStart == Unit(AbsentTime, T1, NoPath, Visit(Plain(Lat35, Lng139), None), NoActivity)
NullStart == Unit(NoTime, T1, NoPath, Visit(Plain(Lat35, Lng139), None), NoActivity)
DetectUnits == {GoodVisit, NoStart, NotAMapping}
DetectDocs ==
    {IphoneDoc(q) : q \in SeqsUpTo(DetectUnits, MaxItems)}
    \cup {AndroidDoc(q) : q \in SeqsUpTo({GoodVisit, NotAMapping}, 1)}
    \cup {IphoneDoc(<<NullStart>>)}
    \cup OddDocs

\* one document of each verdict
SummaryDocs ==
    {AndroidDoc(<<GoodVisit>>), AndroidDoc(<<>>), IphoneDoc(<<GoodVisit>>),
     IphoneDoc(<<NoStart>>), IphoneDoc(<<GoodVisit, NotAMapping>>),
     IphoneDoc(<<>>), IphoneDoc(<<NotAMapping>>), IphoneDoc(<<NullStart>>)} \cup OddDocs

InitSummary ==
    /\ doc \in SummaryDocs
    /\ username = "alice"
    /\ seekable = TRUE
    /\ errors = <<>>
    /\ warnings = <<>>
    /\ data_ret = [called |-> FALSE, records |-> <<>>]
    /\ stream = NewStream
    /\ vcall = NoCall
    /\ scall = NoStructureCall
    /\ ccall = NoConverterCall
    /\ HandlerIdle

\* data_format = validator.detect_format(data)
DetectFormat ==
    /\ Len(errors) < MaxErrors
    /\ \E r \in {detect_format(doc, errors)} :
          /\ scall' = [op |-> "detect_format", tag |-> r.tag, ok |-> ~r.raised,
                       raised |-> r.raised, nerr |-> Len(r.e) - Len(errors)]
          /\ errors' = r.e
    /\ UNCHANGED <<doc, username, seekable, warnings, data_ret, stream, vcall, ccall, handler>>

\* ok = validator.validate_json_structure(data, expected_format)
ValidateJsonStructure ==
    /\ Len(errors) < MaxErrors
    /\ Len(warnings) < MaxWarnings
    /\ \E expected_format \in {"android", "iphone", "gpx"} :
          \E r \in {validate_json_structure(doc, expected_format, errors, warnings)} :
              /\ scall' = [op |-> "validate_json_structure", tag |-> expected_format,
                           ok |-> r.ok, raised |-> FALSE,
                           nerr |-> Len(r.e) - Len(errors)]
              /\ errors' = r.e
              /\ warnings' = r.w
    /\ UNCHANGED <<doc, username, seekable, data_ret, stream, vcall, ccall, handler>>

\* validate_record on an accepted record, one refused for its position, one
\* refused for its probability and one refused for both and its distance
SampleRecords ==
    {Candidate(Float(35, 0), Float(139, 0), None, None, None, NoTime),
     Candidate(Float(90, 1), Float(0, 0), None, None, None, NoTime),
     Candidate(None, None, Float(1, 1), None, Float(0, 5000), NoTime),
     Candidate(Float(90, 1), Float(139, 0), Float(1, 1), Float(1000000, 1), None, T0)}

ValidateSample == ValidateRecord /\ vcall'.record \in SampleRecords

NextSummary == DetectFormat \/ ValidateJsonStructure \/ ValidateSample \/ Reset

SpecSummary == InitSummary /\ [][NextSummary]_vars

\* format detection alone, on every shape of document
InitDetect ==
    /\ doc \in DetectDocs
    /\ username = "alice"
    /\ seekable = TRUE
    /\ errors = <<>>
    /\ warnings = <<>>
    /\ data_ret = [called |-> FALSE, records |-> <<>>]
    /\ stream = NewStream
    /\ vcall = NoCall
    /\ scall = NoStructureCall
    /\ ccall = NoConverterCall
    /\ HandlerIdle

NextDetect == DetectFormat \/ Reset

SpecDetect == InitDetect /\ [][NextDetect]_vars

----------------------------------------------------------------------------
(* One TimelineJSONParser that parses one document after the other.        *)

SessionDocs ==
    SummaryDocs \cup {AndroidDoc(<<BadProbabilityVisit>>),
                      AndroidDoc(<<GoodVisit, BadProbabilityVisit>>),
                      IphoneDoc(<<BadProbabilityVisit, GoodActivity>>)}

InitSessions ==
    /\ doc \in SessionDocs
    /\ username \in Users
    /\ seekable = TRUE
    /\ errors = <<>>
    /\ warnings = <<>>
    /\ data_ret = [called |-> FALSE, records |-> <<>>]
    /\ stream = NewStream
    /\ vcall = NoCall
    /\ scall = NoStructureCall
    /\ ccall = NoConverterCall
    /\ HandlerIdle

\* the caller turns to the next document, with the parser it has
NextDocument ==
    /\ data_ret.called
    /\ Len(errors) < MaxErrors
    /\ Len(warnings) < MaxWarnings
    /\ doc' \in SessionDocs
    /\ data_ret' = [called |-> FALSE, records |-> <<>>]
    /\ UNCHANGED <<username, seekable, errors, warnings, stream, vcall, scall, ccall, handler>>

NextSessions == ParseJsonData \/ NextDocument

SpecSessions == InitSessions /\ [][NextSessions]_vars

----------------------------------------------------------------------------
(* api/timeline/upload.py and api/timeline/fast_upload.py: the rows        *)
(* _save_records_with_copy writes for COPY ... WITH (FORMAT csv, NULL ''). *)
(* A column is [null, v]: null when the text written is empty, which COPY  *)
(* reads as NULL, and v the value written otherwise.                       *)

\* the column list of the COPY statement, by the record's field names
copy_columns ==
    <<"type", "start_time", "end_time", "point_time", "latitude", "longitude",
      "visit_probability", "visit_placeId", "visit_semanticType",
      "activity_distanceMeters", "activity_type", "activity_probability",
      "username", "gpx_data_source", "gpx_track_name", "gpx_elevation",
      "gpx_speed", "gpx_point_sequence">>

\* the fields in the order writerow lists them
row_fields ==
    <<"type", "start_time", "end_time", "point_time", "latitude", "longitude",
      "visit_probability", "visit_placeId", "visit_semanticType",
      "activity_distanceMeters", "activity_type", "activity_probability",
      "username", "gpx_data_source", "gpx_track_name", "gpx_elevation",
      "gpx_speed", "gpx_point_sequence">>

TextFields == {"type", "username"}
TimeFields == {"start_time", "end_time", "point_time"}

NullColumn == [null |-> TRUE, v |-> None]
Column(v) == [null |-> FALSE, v |-> v]

\* the field is None
FieldIsNone(record, f) ==
    CASE f \in TextFields -> FALSE
      [] f \in TimeFields -> record[f].k = "null"
      [] OTHER -> IsNone(record[f])

\* the field is the empty string
FieldIsEmpty(record, f) ==
    CASE f \in TextFields -> record[f] = ""
      [] f \in TimeFields -> record[f].k = "empty"
      [] OTHER -> record[f].k = "str" /\ record[f].s = ""

\* the field is falsy: None, the empty string or the number 0.0
FieldIsFalsy(record, f) ==
    \/ FieldIsNone(record, f)
    \/ FieldIsEmpty(record, f)
    \/ (f \notin TextFields /\ f \notin TimeFields /\ ~Truthy(record[f]))

\* upload.py: record.get(f) or ''
upload_column(record, f) ==
    IF FieldIsFalsy(record, f) THEN NullColumn ELSE Column(record[f])

\* fast_upload.py: record.get(f); csv.writer writes None as the empty text
fast_upload_column(record, f) ==
    IF FieldIsNone(record, f) \/ FieldIsEmpty(record, f) THEN NullColumn
    ELSE Column(record[f])

\* fast_upload.py: geom = 'SRID=4326;POINT(lng lat)' when both are truthy
geom(record) ==
    IF Truthy(record.latitude) /\ Truthy(record.longitude)
    THEN Column([lng |-> record.longitude, lat |-> record.latitude])
    ELSE NullColumn

upload_row(record) == [j \in DOMAIN row_fields |-> upload_column(record, row_fields[j])]

fast_upload_row(record) ==
    [j \in DOMAIN row_fields |-> fast_upload_column(record, row_fields[j])]
    \o <<geom(record)>>

----------------------------------------------------------------------------
(* The two upload handlers.  copy_calls holds the record lists handed to   *)
(* _save_records_with_copy, one per COPY that was committed; db_ok tells   *)
(* whether a COPY succeeds.                                                *)

BATCH_SIZE == 1000

Handler ==
    [batch |-> batch, total_records |-> total_records, total_saved |-> total_saved,
     copy_calls |-> copy_calls, response |-> response]

SetHandler(h) ==
    /\ batch' = h.batch
    /\ total_records' = h.total_records
    /\ total_saved' = h.total_saved
    /\ copy_calls' = h.copy_calls
    /\ response' = h.response

\* the failure undoing the loads already made, as one transaction over the file would
failed_atomic(h) ==
    [h EXCEPT !.copy_calls = <<>>,
              !.response = [status |-> 500, has_totals |-> FALSE,
                            total_records |-> 0, saved_records |-> 0]]

\* except Exception: raise HTTPException(status_code=500)
failed(h) ==
    [h EXCEPT !.response = [status |-> 500, has_totals |-> FALSE,
                            total_records |-> 0, saved_records |-> 0]]

\* saved_count = await _save_records_with_copy(batch); total_saved += saved_count;
\* batch = []
save_batch(h, db_ok) ==
    IF db_ok
    THEN [h EXCEPT !.copy_calls = Append(h.copy_calls, h.batch),
                   !.total_saved = h.total_saved + Len(h.batch),
                   !.batch = <<>>]
    ELSE failed(h)

\* the test of the batch length with > in place of >=
save_if_over(h, db_ok) ==
    IF Len(h.batch) > BATCH_SIZE THEN save_batch(h, db_ok) ELSE h

\* if len(batch) >= BATCH_SIZE
save_if_full(h, db_ok) ==
    IF Len(h.batch) >= BATCH_SIZE THEN save_batch(h, db_ok) ELSE h

\* the body of `for record in records_generator`
loop_body(h, record, db_ok) ==
    save_if_full([h EXCEPT !.batch = Append(h.batch, record),
                           !.total_records = h.total_records + 1], db_ok)

\* the JSONResponse of the handler: 400 without totals when nothing was read
respond(h) ==
    IF h.response.status = 500
    THEN h
    ELSE IF h.total_records = 0
         THEN [h EXCEPT !.response = [status |-> 400, has_totals |-> FALSE,
                                      total_records |-> 0, saved_records |-> 0]]
         ELSE [h EXCEPT !.response = [status |-> 200, has_totals |-> TRUE,
                                      total_records |-> h.total_records,
                                      saved_records |-> h.total_saved]]

\* if batch: save; then the response
after_loop(h, db_ok) ==
    respond(IF h.batch # <<>> THEN save_batch(h, db_ok) ELSE h)

\* fast_upload_timeline_file resumed with what the generator did
fast_upload_step(h, st, db_ok) ==
    CASE st.pc = "raised" -> failed(h)
      [] st.pc = "done" -> after_loop(h, db_ok)
      [] OTHER -> loop_body(h, st.yielded[Len(st.yielded)], db_ok)

\* _process_json_file after parse_json_data returned records
process_json_file(h, records, db_ok) ==
    IF records = <<>>
    THEN [h EXCEPT !.response = [status |-> 400, has_totals |-> FALSE,
                                 total_records |-> 0, saved_records |-> 0]]
    ELSE IF db_ok
         THEN [h EXCEPT !.copy_calls = <<records>>,
                        !.response = [status |-> 200, has_totals |-> TRUE,
                                      total_records |-> Len(records),
                                      saved_records |-> Len(records)]]
         ELSE failed(h)

\* POST /upload: a new parser, parse_json_data, one COPY of all the records
ProcessJsonFile ==
    /\ response.status = 0 /\ ~data_ret.called /\ stream.pc = "new"
    /\ \E db_ok \in BOOLEAN :
         \E r \in {parse_json_data(doc, username, errors, warnings)} :
             /\ data_ret' = [called |-> TRUE, records |-> r.records]
             /\ errors' = r.e
             /\ warnings' = r.w
             /\ SetHandler(process_json_file(Handler, r.records, db_ok))
    /\ UNCHANGED <<doc, username, seekable, stream, vcall, scall, ccall>>

\* POST /fast-upload: the handler up to the generator's next record, end or raise
FastUploadNext ==
    /\ response.status = 0 /\ ~data_ret.called
    /\ \E db_ok \in BOOLEAN :
         \E r \in {parse_json_stream(doc, username, seekable, stream, warnings)} :
             /\ stream' = r.st
             /\ warnings' = r.w
             /\ SetHandler(fast_upload_step(Handler, r.st, db_ok))
    /\ UNCHANGED <<doc, username, seekable, errors, data_ret, vcall, scall, ccall>>

NextUpload == ProcessJsonFile \/ FastUploadNext

SpecUpload == Init /\ [][NextUpload]_vars

----------------------------------------------------------------------------
(* The /fast-upload handler over a long record stream: the generator's     *)
(* records are numbered as they are yielded.                               *)

MaxRecords == 2001

InitBatches ==
    /\ doc = AndroidDoc(<<>>)
    /\ username = "alice"
    /\ seekable = TRUE
    /\ errors = <<>>
    /\ warnings = <<>>
    /\ data_ret = [called |-> FALSE, records |-> <<>>]
    /\ stream = NewStream
    /\ vcall = NoCall
    /\ scall = NoStructureCall
    /\ ccall = NoConverterCall
    /\ HandlerIdle

\* the generator yields its next record
FastUploadRecord ==
    /\ response.status = 0
    /\ total_records < MaxRecords
    /\ \E db_ok \in BOOLEAN : SetHandler(loop_body(Handler, total_records + 1, db_ok))
    /\ UNCHANGED <<doc, username, seekable, errors, warnings, data_ret, stream, vcall, scall, ccall>>

\* the generator is exhausted
FastUploadEnd ==
    /\ response.status = 0
    /\ \E db_ok \in BOOLEAN : SetHandler(after_loop(Handler, db_ok))
    /\ UNCHANGED <<doc, username, seekable, errors, warnings, data_ret, stream, vcall, scall, ccall>>

\* the generator raises
FastUploadStreamError ==
    /\ response.status = 0
    /\ SetHandler(failed(Handler))
    /\ UNCHANGED <<doc, username, seekable, errors, warnings, data_ret, stream, vcall, scall, ccall>>

NextBatches == FastUploadRecord \/ FastUploadEnd \/ FastUploadStreamError

SpecBatches == InitBatches /\ [][NextBatches]_vars

----------------------------------------------------------------------------
(* The /upload handler over a long record list: the records that           *)
(* parse_json_data returned are numbered in their order.                   *)

Numbered(n) == [i \in 1..n |-> i]

\* _process_json_file once parse_json_data has returned n records
ProcessJsonRecords ==
    /\ response.status = 0 /\ ~data_ret.called
    /\ \E n \in 0..MaxRecords : \E db_ok \in BOOLEAN :
          /\ data_ret' = [called |-> TRUE, records |-> Numbered(n)]
          /\ SetHandler(process_json_file(Handler, Numbered(n), db_ok))
    /\ UNCHANGED <<doc, username, seekable, errors, warnings, stream, vcall, scall, ccall>>

NextUploadRecords == ProcessJsonRecords

SpecUploadRecords == InitBatches /\ [][NextUploadRecords]_vars

----------------------------------------------------------------------------
(* The converter called on its own: normalize_record on raw candidate      *)
(* records and again on its own result, convert_timestamp_to_utc on        *)
(* timestamp strings.  The converter keeps no state between calls, so a   *)
(* behaviour follows one input.                                            *)

\* None, floats, NaN, numeric text, other text, the empty string
NumericValues ==
    {None, Float(0, 0), Float(35, 5000), NaN, NumStr(35, 0), Str("abc"), Str(""), Str("nan")}

\* what a time key of a candidate record can hold
RecordTimes == (Times \ {AbsentTime}) \cup {Iso(10, 0)}

\* None, "", unparsable text, and ISO-8601 text without offset, with Z and
\* with an offset east or west of UTC; local times are counted in hours
TimestampStrings ==
    {NoTime, [k |-> "empty", local |-> 0, off |-> 0], [k |-> "bad", local |-> 0, off |-> 0]}
    \cup {[k |-> "naive", local |-> l, off |-> 0] : l \in {0, 8, 9, 10, 23}}
    \cup {[k |-> "Z", local |-> l, off |-> 0] : l \in {0, 10, 23}}
    \cup {Iso(l, o) : l \in {0, 3, 10, 23}, o \in {-5, 0, 9}}

InitConverter ==
    /\ doc = AndroidDoc(<<>>)
    /\ username = "alice"
    /\ seekable = TRUE
    /\ errors = <<>>
    /\ warnings = <<>>
    /\ data_ret = [called |-> FALSE, records |-> <<>>]
    /\ stream = NewStream
    /\ vcall = NoCall
    /\ scall = NoStructureCall
    /\ ccall = NoConverterCall
    /\ HandlerIdle

\* normalized = converter.normalize_record(record)
NormalizeRecord ==
    /\ ccall.op = "none"
    /\ \E s \in RecordTimes, p \in RecordTimes, lat \in NumericValues, d \in NumericValues :
         \E sp \in {None, NumStr(1, 5000)} :
          \E r \in {[Record("visit", s, Iso(11, 0), p, [lat |-> lat, lng |-> Float(139, 0)], None,
                            None, None, d, None, None, "alice") EXCEPT !.gpx_speed = sp]} :
             ccall' = [NoConverterCall EXCEPT !.op = "normalize_record", !.record = r,
                                              !.once = normalize_record(r)]
    /\ UNCHANGED <<doc, username, seekable, errors, warnings, data_ret, stream, vcall, scall, handler>>

\* converter.normalize_record(normalized)
NormalizeAgain ==
    /\ ccall.op = "normalize_record"
    /\ ccall' = [ccall EXCEPT !.op = "normalize_record again",
                              !.twice = normalize_record(ccall.once)]
    /\ UNCHANGED <<doc, username, seekable, errors, warnings, data_ret, stream, vcall, scall, handler>>

\* utc = converter.convert_timestamp_to_utc(timestamp_str)
ConvertTimestamp ==
    /\ ccall.op = "none"
    /\ \E t \in TimestampStrings :
          ccall' = [NoConverterCall EXCEPT !.op = "convert_timestamp_to_utc", !.t = t,
                                           !.utc = convert_timestamp_to_utc(t)]
    /\ UNCHANGED <<doc, username, seekable, errors, warnings, data_ret, stream, vcall, scall, handler>>

NextConverter == NormalizeRecord \/ NormalizeAgain \/ ConvertTimestamp

SpecConverter == InitConverter /\ [][NextConverter]_vars

----------------------------------------------------------------------------
(* Vocabulary of the properties *)

\* detect_format and validate_json_structure accept the document
Accepted ==
    /\ ~detect_format(doc, <<>>).raised
    /\ validate_json_structure(doc, detect_format(doc, <<>>).tag, <<>>, <<>>).ok

AllMappings == \A i \in DOMAIN doc.units : doc.units[i].isMap
StreamEnded == stream.pc \in {"done", "raised"}
BagOfSeq(q) ==
    [x \in {q[i] : i \in DOMAIN q} |-> Cardinality({i \in DOMAIN q : q[i] = x})]
OfType(records, types) == SelectSeq(records, LAMBDA r : r.type \in types)

\* what the dialect's coordinate parser makes of a coordinate string
Coordinates(c) ==
    IF doc.top = "object" THEN parse_android_coordinates(c) ELSE extract_geo_coordinates(c)
LatitudeInRange(v) == FloatLe(Float(-90, 0), v) /\ FloatLe(v, Float(90, 0))
LongitudeInRange(v) == FloatLe(Float(-180, 0), v) /\ FloatLe(v, Float(180, 0))
Parseable(c) == ~IsNone(Coordinates(c).lat) /\ ~IsNone(Coordinates(c).lng)
PositionInRange(c) ==
    LatitudeInRange(Coordinates(c).lat) /\ LongitudeInRange(Coordinates(c).lng)
\* absent, non-numeric, or a number in [0, 1]
ProbabilityAcceptable(p) ==
    \/ IsNone(p)
    \/ p.k = "str" /\ p.s # "nan"
    \/ p.k \in {"float", "numstr"}
       /\ FloatLe(Float(0, 0), Float(p.n, p.f)) /\ FloatLe(Float(p.n, p.f), Float(1, 0))
DistanceAcceptable(d) ==
    \/ IsNone(d)
    \/ d.k = "str" /\ d.s # "nan"
    \/ d.k \in {"float", "numstr"}
       /\ FloatLe(Float(0, 0), Float(d.n, d.f))
       /\ FloatLe(Float(d.n, d.f), Float(1000000, 0))
VisitOnly(u) ==
    u.isMap /\ u.visit.present /\ ~u.timelinePath.present /\ ~u.activity.present
\* a visit segment with a position in range and an acceptable probability
ValidVisit(u) ==
    /\ VisitOnly(u)
    /\ Parseable(u.visit.location) /\ PositionInRange(u.visit.location)
    /\ ProbabilityAcceptable(u.visit.probability)
\* a visit segment whose coordinate string is there and cannot be parsed
UnparsableVisit(u) ==
    VisitOnly(u) /\ u.visit.location.present /\ ~Parseable(u.visit.location)

----------------------------------------------------------------------------
(* C1, as claimed: for every document that detect_format and               *)
(* validate_json_structure accept, read from a seekable source, the        *)
(* records of the finished stream and the records parse_json_data returns  *)
(* are the same multiset.                                                  *)
C1_StreamEqualsBuffered ==
    (Accepted /\ seekable /\ data_ret.called /\ StreamEnded)
    => BagOfSeq(stream.yielded) = BagOfSeq(data_ret.records)

(* C1, amended: the same for the accepted documents whose units are all    *)
(* mappings; the stream of such a document ends without an exception.      *)
C1_StreamEqualsBufferedOnMappings ==
    (Accepted /\ AllMappings /\ seekable)
    => /\ stream.pc # "raised"
       /\ (data_ret.called /\ stream.pc = "done")
          => BagOfSeq(stream.yielded) = BagOfSeq(data_ret.records)

C1_Witness ==
    /\ Accepted /\ AllMappings /\ seekable
    /\ data_ret.called /\ stream.pc = "done"
    /\ Len(stream.yielded) >= 3
    /\ Len(data_ret.records) = Len(stream.yielded)

----------------------------------------------------------------------------
\* a document of one structurally valid visit segment and one visit segment
\* whose coordinate string cannot be parsed, in either order
OneValidOneUnparsable ==
    /\ Accepted /\ Len(doc.units) = 2
    /\ \E i, j \in 1..2 : i # j /\ ValidVisit(doc.units[i]) /\ UnparsableVisit(doc.units[j])

(* C2, as claimed: parsing a document of one valid segment and one segment *)
(* whose coordinate string is unparsable returns exactly one record and    *)
(* leaves at least one warning in the summary.                             *)
C2_UnparsableSegmentDroppedWithWarning ==
    (OneValidOneUnparsable /\ data_ret.called)
    => Len(data_ret.records) = 1 /\ get_validation_summary.warning_count >= 1

(* C2, amended: parsing a document of one valid visit segment and one      *)
(* visit segment whose coordinate string is unparsable and whose           *)
(* probability is acceptable does not abort and returns two records, the   *)
(* unparsable segment's with latitude and longitude null; the summary      *)
(* holds no warning and no error.  The stream of a seekable source yields  *)
(* the same two.                                                           *)
C2_UnparsableSegmentKeptWithoutWarning ==
    \A i, j \in 1..2 :
      (/\ Accepted /\ Len(doc.units) = 2 /\ i # j
       /\ ValidVisit(doc.units[i]) /\ UnparsableVisit(doc.units[j])
       /\ ProbabilityAcceptable(doc.units[j].visit.probability))
      => /\ get_validation_summary.warning_count = 0
         /\ get_validation_summary.is_valid
         /\ seekable => stream.pc # "raised"
         /\ data_ret.called
            => /\ Len(data_ret.records) = 2
               /\ IsNone(data_ret.records[j].latitude)
               /\ IsNone(data_ret.records[j].longitude)
               /\ ~IsNone(data_ret.records[i].latitude)
         /\ stream.pc = "done" => stream.yielded = data_ret.records \/ ~data_ret.called
         /\ stream.pc = "done" => Len(stream.yielded) = 2

C2_Witness ==
    /\ OneValidOneUnparsable
    /\ ProbabilityAcceptable(doc.units[2].visit.probability)
    /\ UnparsableVisit(doc.units[2])
    /\ data_ret.called /\ Len(data_ret.records) = 2
    /\ stream.pc = "done"

----------------------------------------------------------------------------
\* a document of one unit that carries a visit whose place-location
\* coordinate string is malformed or absent
MalformedVisitUnit ==
    /\ Accepted /\ Len(doc.units) = 1
    /\ doc.units[1].visit.present
    /\ ~Parseable(doc.units[1].visit.location)

DegradedVisit(records) ==
    /\ Len(OfType(records, {"visit"})) = 1
    /\ IsNone(OfType(records, {"visit"})[1].latitude)
    /\ IsNone(OfType(records, {"visit"})[1].longitude)
    /\ OfType(records, {"visit"})[1].username = username

(* C3, as claimed: a visit unit of either dialect whose coordinate string  *)
(* is malformed or absent yields exactly one visit record, with latitude   *)
(* and longitude null and the caller's identifier as owner.                *)
C3_MalformedVisitDegraded ==
    MalformedVisitUnit
    => /\ data_ret.called => DegradedVisit(data_ret.records)
       /\ stream.pc = "done" => DegradedVisit(stream.yielded)

(* C3, amended: the same for a visit unit whose probability is absent,     *)
(* non-numeric or within [0, 1].                                           *)
C3_MalformedValidVisitDegraded ==
    (MalformedVisitUnit /\ ProbabilityAcceptable(doc.units[1].visit.probability))
    => /\ data_ret.called => DegradedVisit(data_ret.records)
       /\ stream.pc = "done" => DegradedVisit(stream.yielded)

C3_Witness ==
    /\ MalformedVisitUnit
    /\ doc.top = "array"
    /\ doc.units[1].visit.location.prefix = "GeoCoordinates: "
    /\ data_ret.called /\ DegradedVisit(data_ret.records)
    /\ stream.pc = "done" /\ DegradedVisit(stream.yielded)

----------------------------------------------------------------------------
RecordInRange(r) ==
    /\ \/ IsNone(r.latitude) /\ IsNone(r.longitude)
       \/ LatitudeInRange(r.latitude) /\ LongitudeInRange(r.longitude)
    /\ IsNone(r.visit_probability)
       \/ (FloatLe(Float(0, 0), r.visit_probability)
           /\ FloatLe(r.visit_probability, Float(1, 0)))
    /\ IsNone(r.activity_probability)
       \/ (FloatLe(Float(0, 0), r.activity_probability)
           /\ FloatLe(r.activity_probability, Float(1, 0)))
    /\ IsNone(r.activity_distanceMeters)
       \/ (FloatLe(Float(0, 0), r.activity_distanceMeters)
           /\ FloatLe(r.activity_distanceMeters, Float(1000000, 0)))

(* C4: every record parse_json_data returns or parse_json_stream yields    *)
(* has latitude and longitude both null or within [-90, 90] and            *)
(* [-180, 180], probabilities null or within [0, 1], and a distance null   *)
(* or within [0, 1000000].                                                 *)
C4_OutputRecordsInRange ==
    /\ \A i \in DOMAIN data_ret.records : RecordInRange(data_ret.records[i])
    /\ \A i \in DOMAIN stream.yielded : RecordInRange(stream.yielded[i])

----------------------------------------------------------------------------
\* a well-formed visit: a visit and nothing else, a probability that is
\* acceptable, a coordinate string that is unparsable or in range
WellFormedVisit(u) ==
    /\ VisitOnly(u)
    /\ ProbabilityAcceptable(u.visit.probability)
    /\ Parseable(u.visit.location) => PositionInRange(u.visit.location)

AllVisits(records) ==
    /\ Len(records) = Len(doc.units)
    /\ \A i \in DOMAIN records :
          records[i].type = "visit" /\ records[i].username = username

(* C5: for a well-formed Android document of N segments that each carry    *)
(* only a visit, parse_json_data returns and parse_json_stream yields      *)
(* exactly N records, all of kind visit, all owned by the caller's         *)
(* identifier.                                                             *)
C5_VisitSegmentsYieldVisits ==
    (/\ doc.top = "object" /\ Accepted
     /\ \A i \in DOMAIN doc.units : WellFormedVisit(doc.units[i]))
    => /\ data_ret.called => AllVisits(data_ret.records)
       /\ stream.pc = "done" => AllVisits(stream.yielded)
       /\ seekable => stream.pc # "raised"

C5_Witness ==
    /\ doc.top = "object" /\ Accepted /\ Len(doc.units) >= 2
    /\ \A i \in DOMAIN doc.units : WellFormedVisit(doc.units[i])
    /\ data_ret.called /\ AllVisits(data_ret.records)
    /\ stream.pc = "done" /\ AllVisits(stream.yielded)

----------------------------------------------------------------------------
\* the endpoint records of an activity: a start and an end that share the
\* distance, the type and the probability
TwoEndpoints(records) ==
    /\ Len(OfType(records, {"activity_start", "activity_end"})) = 2
    /\ Len(OfType(records, {"activity_start"})) = 1
    /\ Len(OfType(records, {"activity_end"})) = 1
    /\ \A f \in {"activity_distanceMeters", "activity_type", "activity_probability"} :
          OfType(records, {"activity_start"})[1][f] = OfType(records, {"activity_end"})[1][f]

(* C6: an iPhone activity item whose start and end coordinate strings both *)
(* parse to coordinates within the geographic ranges (and whose distance   *)
(* and probability are acceptable) yields exactly two records, an          *)
(* activity_start and an activity_end, with the same distance, type and    *)
(* probability.                                                            *)
C6_IphoneActivityYieldsTwoEndpoints ==
    (/\ doc.top = "array" /\ Accepted /\ Len(doc.units) = 1
     /\ doc.units[1].activity.present /\ ~doc.units[1].visit.present
     /\ Parseable(doc.units[1].activity.start) /\ PositionInRange(doc.units[1].activity.start)
     /\ Parseable(doc.units[1].activity.end) /\ PositionInRange(doc.units[1].activity.end)
     /\ DistanceAcceptable(doc.units[1].activity.distanceMeters)
     /\ ProbabilityAcceptable(doc.units[1].activity.probability)
     /\ data_ret.called)
    => TwoEndpoints(data_ret.records)

----------------------------------------------------------------------------
\* a time column of a record made from the segment's time t
ColumnOf(t) ==
    IF t.k = "empty" THEN t ELSE convert_timestamp_to_utc(t)

\* the visit record C7 describes for segment u
ExpectedVisit(u) ==
    [type |-> "visit",
     start_time |-> ColumnOf(u.startTime), end_time |-> ColumnOf(u.endTime),
     point_time |-> NoTime,
     latitude |-> parse_android_coordinates(u.visit.location).lat,
     longitude |-> parse_android_coordinates(u.visit.location).lng,
     visit_probability |-> IF u.visit.probability.k = "str" THEN None
                           ELSE u.visit.probability,
     visit_placeId |-> u.visit.placeId, visit_semanticType |-> u.visit.semanticType,
     activity_distanceMeters |-> None, activity_type |-> None,
     activity_probability |-> None, username |-> username,
     gpx_data_source |-> None, gpx_track_name |-> None, gpx_elevation |-> None,
     gpx_speed |-> None, gpx_point_sequence |-> None]

OneVisit(records, u) == OfType(records, {"visit"}) = <<ExpectedVisit(u)>>

----------------------------------------------------------------------------
\* the record of the last validate_record call checks nothing but its position
OnlyPosition(r) ==
    /\ IsNone(r.visit_probability) /\ IsNone(r.activity_probability)
    /\ IsNone(r.activity_distanceMeters)
    /\ TimeFalsy(r.start_time) /\ TimeFalsy(r.end_time) /\ TimeFalsy(r.point_time)

(* C8: for a record whose latitude and longitude are both non-null and     *)
(* whose other checked fields are null, validate_record returns true       *)
(* exactly when -90 <= latitude <= 90 and -180 <= longitude <= 180, the    *)
(* bounds included; (90.0, 180.0) is valid and (90.0001, 0) is not; a      *)
(* false result comes with a new warning and no error.                     *)
C8_CoordinateRangeInclusive ==
    (/\ vcall.called /\ OnlyPosition(vcall.record)
     /\ ~IsNone(vcall.record.latitude) /\ ~IsNone(vcall.record.longitude))
    => /\ vcall.ok <=> (/\ LatitudeInRange(vcall.record.latitude)
                        /\ LongitudeInRange(vcall.record.longitude))
       /\ (/\ vcall.record.latitude = Float(90, 0)
           /\ vcall.record.longitude = Float(180, 0)) => vcall.ok
       /\ (/\ vcall.record.latitude = Float(90, 1)
           /\ vcall.record.longitude = Float(0, 0)) => ~vcall.ok
       /\ ~vcall.ok => (vcall.nwarn >= 1 /\ errors = <<>>)
       /\ vcall.ok => vcall.nwarn = 0

\* (90.0001, 0) has been refused with a warning
C8_Witness ==
    /\ vcall.called /\ OnlyPosition(vcall.record)
    /\ vcall.record.latitude = Float(90, 1) /\ vcall.record.longitude = Float(0, 0)
    /\ ~vcall.ok /\ vcall.nwarn = 1 /\ errors = <<>>

\* (90.0, 180.0) has been accepted
C8_BoundaryAccepted ==
    /\ vcall.called /\ OnlyPosition(vcall.record)
    /\ vcall.record.latitude = Float(90, 0) /\ vcall.record.longitude = Float(180, 0)
    /\ vcall.ok

(* C9: if exactly one of a record's latitude and longitude is non-null,    *)
(* validate_record returns false and appends a warning.                    *)
C9_HalfPositionInvalid ==
    (/\ vcall.called
     /\ IsNone(vcall.record.latitude) # IsNone(vcall.record.longitude))
    => (~vcall.ok /\ vcall.nwarn >= 1)

\* a number below lo or above hi
Outside(v, lo, hi) ==
    /\ float(v).ok
    /\ FloatLt(float(v).v, lo) \/ FloatLt(hi, float(v).v)
\* null, or a number from lo to hi
NullOrWithin(v, lo, hi) ==
    IsNone(v) \/ (float(v).ok /\ FloatLe(lo, float(v).v) /\ FloatLe(float(v).v, hi))

(* C10: validate_record returns false and appends a warning whenever a     *)
(* non-null visit_probability or activity_probability lies outside         *)
(* [0.0, 1.0] or a non-null activity_distanceMeters is below 0 or above    *)
(* 1,000,000; a record without position and times whose probabilities and  *)
(* distance are null or within the bounds, 0.0, 1.0, 0 and 1,000,000       *)
(* included, is accepted without a warning.                                *)
C10_ProbabilityAndDistanceBounds ==
    vcall.called
    => /\ (\/ Outside(vcall.record.visit_probability, Float(0, 0), Float(1, 0))
           \/ Outside(vcall.record.activity_probability, Float(0, 0), Float(1, 0))
           \/ Outside(vcall.record.activity_distanceMeters, Float(0, 0),
                      Float(1000000, 0)))
          => (~vcall.ok /\ vcall.nwarn >= 1)
       /\ (/\ IsNone(vcall.record.latitude) /\ IsNone(vcall.record.longitude)
           /\ TimeFalsy(vcall.record.start_time)
           /\ NullOrWithin(vcall.record.visit_probability, Float(0, 0), Float(1, 0))
           /\ NullOrWithin(vcall.record.activity_probability, Float(0, 0), Float(1, 0))
           /\ NullOrWithin(vcall.record.activity_distanceMeters, Float(0, 0),
                           Float(1000000, 0)))
          => (vcall.ok /\ vcall.nwarn = 0)

\* a distance of 1,000,000.0001 has been refused with a warning
C10_Witness ==
    /\ vcall.called
    /\ vcall.record.activity_distanceMeters = Float(1000000, 1)
    /\ IsNone(vcall.record.latitude) /\ IsNone(vcall.record.visit_probability)
    /\ ~vcall.ok /\ vcall.nwarn = 1

\* a distance of exactly 1,000,000 has been accepted
C10_BoundaryAccepted ==
    /\ vcall.called
    /\ vcall.record.activity_distanceMeters = Float(1000000, 0)
    /\ vcall.ok

----------------------------------------------------------------------------
(* C11: after any sequence of detect_format, validate_json_structure,      *)
(* validate_record and reset calls on one validator the summary has        *)
(* error_count = number of error strings, warning_count = number of        *)
(* warning strings and is_valid true exactly when there is no error;       *)
(* validate_record leaves the errors as they are, and is_valid turns false *)
(* only in a detect_format or validate_json_structure call that fails.     *)
C11_SummaryCounts ==
    /\ [](/\ get_validation_summary.errors = errors
          /\ get_validation_summary.warnings = warnings
          /\ get_validation_summary.error_count = Len(errors)
          /\ get_validation_summary.warning_count = Len(warnings)
          /\ get_validation_summary.is_valid <=> (errors = <<>>))
    /\ [][/\ ValidateRecord => errors' = errors
          /\ (get_validation_summary.is_valid /\ ~get_validation_summary'.is_valid)
             => /\ DetectFormat \/ ValidateJsonStructure
                /\ ~scall'.ok /\ scall'.nerr = 1]_vars

\* a summary with an error of a refused document and a warning of a refused record
C11_Witness ==
    /\ scall.op = "detect_format" /\ scall.raised
    /\ vcall.called /\ ~vcall.ok
    /\ get_validation_summary.error_count = 1
    /\ get_validation_summary.warning_count >= 1
    /\ ~get_validation_summary.is_valid

----------------------------------------------------------------------------
\* what a parse of the document leaves in the summary of a new parser
OwnSummary == parse_json_data(doc, username, <<>>, <<>>)

(* C12: when parses are run one after the other on the same                *)
(* TimelineJSONParser, the summary after a parse holds only the errors and *)
(* warnings that parse produced.                                           *)
C12_SummaryOfLastParseOnly ==
    data_ret.called
    => /\ get_validation_summary.errors = OwnSummary.e
       /\ get_validation_summary.warnings = OwnSummary.w

----------------------------------------------------------------------------
\* rule 1 as claimed: a sequence whose first element is a mapping with startTime
FirstItemHasStartTime ==
    /\ doc.top = "array" /\ Len(doc.units) > 0
    /\ doc.units[1].isMap /\ doc.units[1].startTime.k # "absent"
\* rule 1 of the code: the first three elements are mappings as well
FirstThreeAreMappings ==
    \A i \in 1..3 : i <= Len(doc.units) => doc.units[i].isMap
\* rule 2: a mapping with semanticSegments
HasSemanticSegments == doc.top = "object" /\ doc.hasSegments

\* the last detect_format call gave the tag, or raised after recording an error
Detected(tag) == scall.tag = tag /\ ~scall.raised /\ scall.nerr = 0
DetectionFailed == scall.raised /\ scall.tag = "none" /\ scall.nerr = 1

(* C13, as claimed: detect_format returns iphone for every sequence whose  *)
(* first element is a mapping containing startTime, whatever the later     *)
(* elements are; otherwise android for every mapping containing            *)
(* semanticSegments; otherwise it raises after recording an error.         *)
C13_DetectFormatRules ==
    scall.op = "detect_format"
    => IF FirstItemHasStartTime THEN Detected("iphone")
       ELSE IF HasSemanticSegments THEN Detected("android")
       ELSE DetectionFailed

(* C13, amended: detect_format returns iphone for every sequence whose     *)
(* first element is a mapping containing startTime and whose second and    *)
(* third elements, when there, are mappings too; otherwise android for     *)
(* every mapping containing semanticSegments; otherwise it raises after    *)
(* recording one error; it returns no other tag.                           *)
C13_DetectFormatRulesFirstThree ==
    scall.op = "detect_format"
    => IF FirstItemHasStartTime /\ FirstThreeAreMappings THEN Detected("iphone")
       ELSE IF HasSemanticSegments THEN Detected("android")
       ELSE DetectionFailed

\* a sequence of four whose last element alone is not a mapping is iphone
C13_Witness ==
    /\ scall.op = "detect_format" /\ Detected("iphone")
    /\ Len(doc.units) = 4 /\ ~doc.units[4].isMap

\* a sequence whose third element is not a mapping is refused
C13_ThirdItemRefused ==
    /\ scall.op = "detect_format" /\ DetectionFailed
    /\ FirstItemHasStartTime /\ Len(doc.units) >= 3 /\ ~doc.units[3].isMap

----------------------------------------------------------------------------
\* the records the dialect's processor makes of the first n units, in order
RecordsOfFirst(format, n) ==
    process_units(format, SubSeq(doc.units, 1, n), username, 1,
                  [records |-> <<>>, w |-> <<>>, raised |-> FALSE]).records

\* the stream has taken n units and handed on, or holds ready, their records
FedInOrder(format, n) ==
    /\ stream.format = format
    /\ stream.pos = n
    /\ stream.yielded \o stream.pending = RecordsOfFirst(format, n)

(* C14: on a seekable source parse_json_stream chooses the dialect from    *)
(* the first structural token alone: after an object start it feeds the    *)
(* elements of semanticSegments, in order and all of them unless one       *)
(* raises, to the Android processor; after an array start the top-level    *)
(* elements to the iPhone processor; after any other first token it yields *)
(* nothing and raises nothing.                                             *)
C14_StreamDialectFromFirstToken ==
    (seekable /\ stream.pc # "new")
    => /\ doc.top = "object"
          => /\ FedInOrder("android", stream.pos)
             /\ stream.pc = "done" => stream.pos = Len(doc.units)
       /\ doc.top = "array"
          => /\ FedInOrder("iphone", stream.pos)
             /\ stream.pc = "done" => stream.pos = Len(doc.units)
       /\ doc.top = "scalar"
          => stream.pc = "done" /\ stream.yielded = <<>> /\ stream.pos = 0
       /\ stream.pc = "raised"
          => /\ stream.pos >= 1
             /\ process_unit(stream.format, doc.units[stream.pos], username, <<>>).raised

\* an array whose first element has no startTime, streamed to its end as iphone
C14_Witness ==
    /\ seekable /\ stream.pc = "done" /\ stream.format = "iphone"
    /\ doc.top = "array" /\ Len(doc.units) >= 1
    /\ doc.units[1].isMap /\ doc.units[1].startTime.k = "absent"
    /\ Len(stream.yielded) >= 1

\* a top-level scalar, streamed to its end
C14_ScalarYieldsNothing ==
    /\ seekable /\ doc.top = "scalar" /\ stream.pc = "done" /\ stream.yielded = <<>>

(* C15: when the source cannot be rewound, parse_json_stream raises at its *)
(* first step, before it yields a record or reads a unit, whatever the     *)
(* first token is.                                                         *)
C15_NonSeekableSourceRaises ==
    (~seekable /\ stream.pc # "new")
    => /\ stream.pc = "raised"
       /\ stream.yielded = <<>> /\ stream.pending = <<>> /\ stream.pos = 0
       /\ data_ret.called \/ warnings = <<>>

\* a source that cannot be rewound, holding an Android document with a visit
C15_Witness ==
    /\ ~seekable /\ stream.pc = "raised" /\ stream.format = "android"
    /\ Len(doc.units) >= 1 /\ ValidVisit(doc.units[1])
    /\ stream.yielded = <<>>

\* the same for an array and for a top-level scalar
C15_EveryFirstToken ==
    /\ ~seekable /\ stream.pc = "raised" /\ stream.format \in {"iphone", "unknown"}

----------------------------------------------------------------------------
(* The places of a unit that feed one candidate record only, and the unit  *)
(* with such a place put right.                                            *)

GoodCoordinates == Plain(Lat35, Lng139)
BadCoordinates(c) == c.present /\ (~Parseable(c) \/ ~PositionInRange(c))
BadProbability(p) == p.k = "str" \/ ~ProbabilityAcceptable(p)
BadTime(t) == t.k = "bad"

Sites(u) ==
    {[f |-> f, k |-> 0] : f \in {"visit.location", "visit.probability", "activity.start",
                                 "activity.end", "startTime", "endTime"}}
    \cup {[f |-> f, k |-> k] : f \in {"point", "time"}, k \in DOMAIN u.timelinePath.pts}

Corrupted(u, site) ==
    CASE site.f = "visit.location" -> u.visit.present /\ BadCoordinates(u.visit.location)
      [] site.f = "visit.probability" -> u.visit.present /\ BadProbability(u.visit.probability)
      [] site.f = "activity.start" -> u.activity.present /\ BadCoordinates(u.activity.start)
      [] site.f = "activity.end" -> u.activity.present /\ BadCoordinates(u.activity.end)
      [] site.f = "startTime" -> VisitOnly(u) /\ BadTime(u.startTime)
      [] site.f = "endTime" -> VisitOnly(u) /\ BadTime(u.endTime)
      [] site.f = "point" ->
           u.timelinePath.present /\ BadCoordinates(u.timelinePath.pts[site.k].point)
      [] site.f = "time" -> u.timelinePath.present /\ BadTime(u.timelinePath.pts[site.k].time)

Repaired(u, site) ==
    CASE site.f = "visit.location" -> [u EXCEPT !.visit.location = GoodCoordinates]
      [] site.f = "visit.probability" -> [u EXCEPT !.visit.probability = Float(0, 9000)]
      [] site.f = "activity.start" -> [u EXCEPT !.activity.start = GoodCoordinates]
      [] site.f = "activity.end" -> [u EXCEPT !.activity.end = GoodCoordinates]
      [] site.f = "startTime" -> [u EXCEPT !.startTime = T0]
      [] site.f = "endTime" -> [u EXCEPT !.endTime = T1]
      [] site.f = "point" -> [u EXCEPT !.timelinePath.pts[site.k].point = GoodCoordinates]
      [] site.f = "time" -> [u EXCEPT !.timelinePath.pts[site.k].time = T0]

RepairedDoc(i, site) == [doc EXCEPT !.units[i] = Repaired(doc.units[i], site)]

NullField(x) == x = None \/ x = NoTime
\* record r is record c with some fields nulled
Nulled(r, c) ==
    /\ r.type = c.type /\ r.username = c.username
    /\ \A f \in DOMAIN c : r[f] = c[f] \/ NullField(r[f])
Without(q, p) == SubSeq(q, 1, p - 1) \o SubSeq(q, p + 1, Len(q))
\* out is clean, or clean with one record left out or nulled
AtMostOneRecordAway(out, clean) ==
    \/ out = clean
    \/ \E p \in DOMAIN clean :
          \/ out = Without(clean, p)
          \/ /\ Len(out) = Len(clean)
             /\ \A q \in DOMAIN clean : q # p => out[q] = clean[q]
             /\ Nulled(out[p], clean[p])

\* what the two parsers make of a document
Buffered(d) == parse_json_data(d, username, <<>>, <<>>).records
Streamed(d) ==
    process_units(first_token_format(d), stream_items(d, first_token_format(d)),
                  username, 1, [records |-> <<>>, w |-> <<>>, raised |-> FALSE]).records

C16_NulledWitness ==
    /\ Len(doc.units) = 2 /\ ValidVisit(doc.units[1]) /\ UnparsableVisit(doc.units[2])
    /\ data_ret.called /\ Len(data_ret.records) = 2
    /\ data_ret.records # Buffered(RepairedDoc(2, [f |-> "visit.location", k |-> 0]))

----------------------------------------------------------------------------
\* null, or an ISO-8601 string of a UTC instant with the offset +00:00
NullOrUtc(t) == t.k = "null" \/ (t.k = "offset" /\ t.off = 0)

TimesNullOrUtc(r) ==
    NullOrUtc(r.start_time) /\ NullOrUtc(r.end_time) /\ NullOrUtc(r.point_time)

(* C17: in every record returned or yielded by the parser, each of         *)
(* start_time, end_time and point_time is null or an ISO-8601 string of a  *)
(* UTC instant with the offset +00:00, whatever the vendor's               *)
(* startTime / endTime / time held.                                        *)
C17_TimesNullOrUtc ==
    /\ \A i \in DOMAIN data_ret.records : TimesNullOrUtc(data_ret.records[i])
    /\ \A i \in DOMAIN stream.yielded : TimesNullOrUtc(stream.yielded[i])

----------------------------------------------------------------------------
VisitGroupNull(r) ==
    IsNone(r.visit_probability) /\ IsNone(r.visit_placeId) /\ IsNone(r.visit_semanticType)
ActivityGroupNull(r) ==
    /\ IsNone(r.activity_distanceMeters) /\ IsNone(r.activity_type)
    /\ IsNone(r.activity_probability)
ProvenanceNull(r) ==
    /\ IsNone(r.gpx_data_source) /\ IsNone(r.gpx_track_name) /\ IsNone(r.gpx_elevation)
    /\ IsNone(r.gpx_speed) /\ IsNone(r.gpx_point_sequence)

KindDeterminesGroups(r) ==
    /\ r.type \in {"timelinePath", "visit", "activity_start", "activity_end"}
    /\ r.type # "visit" => VisitGroupNull(r)
    /\ r.type \notin {"activity_start", "activity_end"} => ActivityGroupNull(r)
    /\ r.type # "timelinePath" => r.point_time = NoTime
    /\ ProvenanceNull(r)

(* C18: in every record returned or yielded by the parser, kind is one of  *)
(* timelinePath, visit, activity_start and activity_end; the visit fields  *)
(* are non-null only on visit records, the activity fields only on         *)
(* activity records, point_time only on timelinePath records, and the      *)
(* source-provenance fields are null.                                      *)
C18_KindDeterminesGroups ==
    /\ \A i \in DOMAIN data_ret.records : KindDeterminesGroups(data_ret.records[i])
    /\ \A i \in DOMAIN stream.yielded : KindDeterminesGroups(stream.yielded[i])

\* a segment with a path, a visit and an activity, returned as records of each kind
C18_Witness ==
    /\ data_ret.called
    /\ \A t \in {"timelinePath", "visit", "activity_start", "activity_end"} :
          \E i \in DOMAIN data_ret.records : data_ret.records[i].type = t
    /\ \E i \in DOMAIN data_ret.records :
          /\ data_ret.records[i].type = "visit"
          /\ ~IsNone(data_ret.records[i].visit_placeId)
    /\ \E i \in DOMAIN data_ret.records :
          /\ data_ret.records[i].type = "timelinePath"
          /\ data_ret.records[i].point_time # NoTime

----------------------------------------------------------------------------
\* row holds the record's fields in the order of the COPY column list, a
\* column NULL exactly when the field is null
RowFaithful(row, record) ==
    /\ Len(row) >= Len(copy_columns)
    /\ \A j \in DOMAIN copy_columns :
          /\ row[j].null <=> FieldIsNone(record, copy_columns[j])
          /\ ~row[j].null => row[j].v = record[copy_columns[j]]

\* the row's last column is the point (longitude, latitude) when both are there
GeometryFaithful(row, record) ==
    (~IsNone(record.latitude) /\ ~IsNone(record.longitude))
    => row[Len(row)] = Column([lng |-> record.longitude, lat |-> record.latitude])

(* C19: every record handed to _save_records_with_copy is written as one   *)
(* row whose columns follow the COPY column list in order; a column is     *)
(* NULL if and only if the record's field is null, a numeric 0.0 being     *)
(* written as a value; in the fast path the row ends with the point built  *)
(* from (longitude, latitude) whenever both coordinates are non-null.      *)
C19_RowsFaithful ==
    \A c \in DOMAIN copy_calls :
       \A i \in DOMAIN copy_calls[c] :
          IF data_ret.called
          THEN RowFaithful(upload_row(copy_calls[c][i]), copy_calls[c][i])
          ELSE /\ RowFaithful(fast_upload_row(copy_calls[c][i]), copy_calls[c][i])
               /\ Len(fast_upload_row(copy_calls[c][i])) = Len(copy_columns) + 1
               /\ GeometryFaithful(fast_upload_row(copy_calls[c][i]), copy_calls[c][i])

\* the same for records whose time fields are null or UTC strings
C19_RowsFaithfulOfTimedRecords ==
    \A c \in DOMAIN copy_calls :
       \A i \in DOMAIN copy_calls[c] :
          TimesNullOrUtc(copy_calls[c][i])
          => IF data_ret.called
             THEN RowFaithful(upload_row(copy_calls[c][i]), copy_calls[c][i])
             ELSE /\ RowFaithful(fast_upload_row(copy_calls[c][i]), copy_calls[c][i])
                  /\ GeometryFaithful(fast_upload_row(copy_calls[c][i]), copy_calls[c][i])

----------------------------------------------------------------------------
\* the handler has answered without an exception
Answered == response.status \in {200, 400}

\* the batches loaded are the first n records of the stream, cut in its order
\* into batches of BATCH_SIZE, the last one shorter and not empty
PartitionOfFirst(n) ==
    /\ Len(copy_calls) = (n + BATCH_SIZE - 1) \div BATCH_SIZE
    /\ \A c \in DOMAIN copy_calls :
          /\ Len(copy_calls[c]) >= 1 /\ Len(copy_calls[c]) <= BATCH_SIZE
          /\ c < Len(copy_calls) => Len(copy_calls[c]) = BATCH_SIZE
          /\ \A i \in DOMAIN copy_calls[c] : copy_calls[c][i] = BATCH_SIZE * (c - 1) + i
    /\ copy_calls # <<>>
       => BATCH_SIZE * (Len(copy_calls) - 1) + Len(copy_calls[Len(copy_calls)]) = n

(* C20, as claimed: when the record stream yields N records and ends, the  *)
(* handler has loaded them in ceil(N/1000) calls that partition the stream *)
(* in its order, every batch of at most 1000 records and every batch but   *)
(* the last of exactly 1000, none empty, and the response reports          *)
(* total_records = N.                                                      *)
C20_BatchesPartitionStream ==
    Answered
    => /\ PartitionOfFirst(total_records)
       /\ response.has_totals /\ response.total_records = total_records

(* C20, amended: the same for N >= 1; when the stream yields no record the *)
(* handler loads nothing and answers 400 without a total_records.  Until   *)
(* the stream ends the batches loaded and the batch in hand are the        *)
(* records read so far.                                                    *)
C20_BatchesPartitionNonEmptyStream ==
    /\ Answered
       => /\ PartitionOfFirst(total_records)
          /\ total_records >= 1
             => /\ response.status = 200 /\ response.has_totals
                /\ response.total_records = total_records
          /\ total_records = 0
             => response.status = 400 /\ ~response.has_totals /\ copy_calls = <<>>
    /\ response.status = 0
       => /\ Len(batch) < BATCH_SIZE
          /\ PartitionOfFirst(total_records - Len(batch))
          /\ \A i \in DOMAIN batch : batch[i] = total_records - Len(batch) + i

\* 1500 records give 2 COPY calls
C20_Witness ==
    /\ response.status = 200 /\ response.total_records = 1500
    /\ total_records = 1500
    /\ Len(copy_calls) = 2
    /\ Len(copy_calls[1]) = 1000 /\ Len(copy_calls[2]) = 500

\* 2000 records give 2 COPY calls and no empty one
C20_ExactMultiple ==
    /\ response.status = 200 /\ total_records = 2000 /\ Len(copy_calls) = 2

----------------------------------------------------------------------------
(* C21: an upload through /api/timeline/upload whose file produces N >= 1  *)
(* valid records is answered 200 with total_records = N, and the records   *)
(* are loaded in ceil(N/1000) COPY calls of at most 1000 records each.     *)
C21_UploadLoadsInBatches ==
    (data_ret.called /\ Len(data_ret.records) >= 1 /\ response.status # 500)
    => /\ response.status = 200 /\ response.has_totals
       /\ response.total_records = Len(data_ret.records)
       /\ Len(copy_calls) = (Len(data_ret.records) + BATCH_SIZE - 1) \div BATCH_SIZE
       /\ \A c \in DOMAIN copy_calls : Len(copy_calls[c]) <= BATCH_SIZE

\* what the handler does: the answer is as claimed, the load is one COPY of all
C21_UploadLoadsInOneCall ==
    (data_ret.called /\ Len(data_ret.records) >= 1 /\ response.status # 500)
    => /\ response.status = 200 /\ response.has_totals
       /\ response.total_records = Len(data_ret.records)
       /\ copy_calls = <<data_ret.records>>

----------------------------------------------------------------------------
\* the records of the first n elements, with no exception among them
CountOfFirst(n) == Len(RecordsOfFirst(stream.format, n))

\* the generator is suspended at a yield: the record it has just handed on
\* comes from the element it took last, and it holds the rest of that
\* element's records and nothing of a later element
OneUnitInFlight ==
    /\ stream.pos >= 1
    /\ stream.yielded \o stream.pending = RecordsOfFirst(stream.format, stream.pos)
    /\ CountOfFirst(stream.pos - 1) < Len(stream.yielded)
    /\ Len(stream.yielded) <= CountOfFirst(stream.pos)

\* an element is taken from the source only by a pull of the consumer, and
\* only when no record of an earlier element is waiting
UnitsTakenOnDemand ==
    stream'.pos # stream.pos
    => /\ StreamNext
       /\ stream.pending = <<>>
       /\ stream'.pos > stream.pos

(* C22: parse_json_stream keeps at most one unit in flight: unit i+1 is    *)
(* not taken from the source until every record of unit i has been handed  *)
(* to the consumer, and while the consumer does not pull no unit is read   *)
(* or processed.                                                           *)
C22_OneUnitInFlight ==
    /\ []((seekable /\ stream.pc = "open") => OneUnitInFlight)
    /\ [][UnitsTakenOnDemand /\ (~StreamNext => UNCHANGED stream)]_vars

\* the generator suspended between the two records of the first of two units
C22_Witness ==
    /\ seekable /\ stream.pc = "open" /\ stream.pos = 1
    /\ Len(doc.units) = 2
    /\ Len(stream.yielded) = 1 /\ Len(stream.pending) >= 1

----------------------------------------------------------------------------
\* a time column as normalize_record leaves it: null or text with offset +00:00
UtcIsoOrNull(t) == t.k = "null" \/ (t.k = "offset" /\ t.off = 0)

\* the record holds UTC ISO timestamps and float (or null) numerics
AlreadyNormalized(r) ==
    /\ \A f \in TimeFields : UtcIsoOrNull(r[f])
    /\ \A f \in {"latitude", "longitude", "activity_distanceMeters", "visit_probability",
                 "activity_probability", "gpx_elevation", "gpx_speed", "gpx_point_sequence"} :
          r[f].k \in {"none", "float", "nan"}

(* C23: normalize_record is idempotent: normalizing the result of          *)
(* normalize_record again gives the same record; a record with UTC ISO     *)
(* timestamps and float numerics is a fixed point.                         *)
C23_NormalizeIdempotent ==
    /\ ccall.op = "normalize_record again" => ccall.twice = ccall.once
    /\ (ccall.op = "normalize_record" /\ AlreadyNormalized(ccall.record))
       => ccall.once = ccall.record

\* a record with a time without offset and numeric text, normalized twice
C23_Witness ==
    /\ ccall.op = "normalize_record again"
    /\ ccall.record.start_time.k = "naive" /\ ccall.record.latitude.k = "numstr"
    /\ ccall.once # ccall.record
    /\ ccall.once.start_time = Iso(1, 0) /\ ccall.once.latitude = Float(35, 0)

\* a fixed point: UTC time text and float numerics
C23_FixedPointWitness ==
    /\ ccall.op = "normalize_record" /\ AlreadyNormalized(ccall.record)
    /\ ccall.record.start_time.k = "offset" /\ ccall.record.latitude.k = "float"

(* C24: convert_timestamp_to_utc maps a timestamp with explicit offset o   *)
(* and local time t to the UTC instant t - o, reads a trailing Z as offset *)
(* zero, reads a timestamp without offset as Asia/Tokyo local time (UTC+9) *)
(* and returns None for empty or unparsable input.                         *)
C24_ConvertToUtc ==
    ccall.op = "convert_timestamp_to_utc"
    => /\ ccall.t.k = "offset"
          => /\ ccall.utc.k = "offset" /\ ccall.utc.off = 0
             /\ ccall.utc.local + ccall.t.off = ccall.t.local
       /\ ccall.t.k = "Z"
          => ccall.utc.k = "offset" /\ ccall.utc.off = 0 /\ ccall.utc.local = ccall.t.local
       /\ ccall.t.k = "naive"
          => /\ ccall.utc.k = "offset" /\ ccall.utc.off = 0
             /\ ccall.utc.local + 9 = ccall.t.local
       /\ ccall.t.k \in {"null", "empty", "bad"} => ccall.utc = NoTime

\* 08:00 without offset is 23:00 of the day before in UTC
C24_Witness ==
    /\ ccall.op = "convert_timestamp_to_utc"
    /\ ccall.t = [k |-> "naive", local |-> 8, off |-> 0]
    /\ ccall.utc = Iso(-1, 0)

\* 03:00+09:00 is 18:00 of the day before; unparsable text gives None
C24_OffsetWitness ==
    /\ ccall.op = "convert_timestamp_to_utc"
    /\ ccall.t = Iso(3, 9) /\ ccall.utc = Iso(-6, 0)

----------------------------------------------------------------------------
\* the one unit of the document is an activity and nothing else
ActivityOnly(u) ==
    u.isMap /\ u.activity.present /\ ~u.visit.present /\ ~u.timelinePath.present

Endpoint(u, key) == IF key = "start" THEN u.activity.start ELSE u.activity.end
EndpointType(key) == IF key = "start" THEN "activity_start" ELSE "activity_end"
OtherKey(key) == IF key = "start" THEN "end" ELSE "start"

\* the endpoint carries a coordinate string and the string cannot be parsed
UnparsableEndpoint(u, key) ==
    ActivityOnly(u) /\ Endpoint(u, key).present /\ ~Parseable(Endpoint(u, key))

\* nothing else in the activity can make the validator warn
RestAcceptable(u, key) ==
    /\ DistanceAcceptable(u.activity.distanceMeters)
    /\ ProbabilityAcceptable(u.activity.probability)
    /\ \/ ~Endpoint(u, OtherKey(key)).present
       \/ ~Parseable(Endpoint(u, OtherKey(key)))
       \/ PositionInRange(Endpoint(u, OtherKey(key)))

(* C25, as claimed: an Android activity endpoint whose coordinate string   *)
(* is there and cannot be parsed is built as a candidate record that the   *)
(* validator refuses: the record is absent from the output and a warning   *)
(* is counted in the summary.                                              *)
C25_UnparsableEndpointInvalidated ==
    \A key \in {"start", "end"} :
      (/\ doc.top = "object" /\ Accepted /\ Len(doc.units) = 1 /\ data_ret.called
       /\ UnparsableEndpoint(doc.units[1], key))
      => /\ OfType(data_ret.records, {EndpointType(key)}) = <<>>
         /\ get_validation_summary.warning_count >= 1

(* C25, amended: such an endpoint is built as a candidate record with null *)
(* latitude and longitude, which the validator does not check: when the    *)
(* activity's distance and probability are acceptable the record is in the *)
(* output with both coordinates null and no warning is counted.  The       *)
(* iPhone processor leaves such an endpoint out, also without a warning.   *)
C25_UnparsableEndpointKeptWithNullPosition ==
    \A key \in {"start", "end"} :
      (/\ Accepted /\ Len(doc.units) = 1 /\ data_ret.called
       /\ UnparsableEndpoint(doc.units[1], key)
       /\ RestAcceptable(doc.units[1], key))
      => /\ get_validation_summary.warning_count = 0
         /\ doc.top = "object"
            => /\ Len(OfType(data_ret.records, {EndpointType(key)})) = 1
               /\ IsNone(OfType(data_ret.records, {EndpointType(key)})[1].latitude)
               /\ IsNone(OfType(data_ret.records, {EndpointType(key)})[1].longitude)
         /\ doc.top = "array"
            => OfType(data_ret.records, {EndpointType(key)}) = <<>>

\* an Android activity whose start is "geo:35.0,139.0", kept without position
C25_Witness ==
    /\ doc.top = "object" /\ Accepted /\ Len(doc.units) = 1 /\ data_ret.called
    /\ UnparsableEndpoint(doc.units[1], "start") /\ RestAcceptable(doc.units[1], "start")
    /\ ~doc.units[1].activity.end.present
    /\ Len(data_ret.records) = 1 /\ data_ret.records[1].type = "activity_start"
    /\ IsNone(data_ret.records[1].latitude)
    /\ warnings = <<>>

\* the same endpoint in an iPhone item: no record, no warning
C25_IphoneWitness ==
    /\ doc.top = "array" /\ Accepted /\ Len(doc.units) = 1 /\ data_ret.called
    /\ UnparsableEndpoint(doc.units[1], "start") /\ RestAcceptable(doc.units[1], "start")
    /\ ~doc.units[1].activity.end.present
    /\ data_ret.records = <<>> /\ warnings = <<>>

----------------------------------------------------------------------------
\* the activity records of the output
ActivityRecords == OfType(data_ret.records, {"activity_start", "activity_end"})

\* the activity records carry distance d, and the type and probability of the
\* top candidate, the numbers as floats
EndpointsCarry(u, d) ==
    \A i \in DOMAIN ActivityRecords :
       /\ ActivityRecords[i].activity_distanceMeters = normalize_numeric_value(d)
       /\ ActivityRecords[i].activity_type = u.activity.type
       /\ ActivityRecords[i].activity_probability
             = normalize_numeric_value(u.activity.probability)

(* C26, as claimed: every activity_start and activity_end record made from *)
(* an Android activity carries the distance, type and probability of the   *)
(* activity's top candidate, the same on both endpoint records.            *)
C26_EndpointsCarryTopCandidateValues ==
    (/\ doc.top = "object" /\ Accepted /\ Len(doc.units) = 1 /\ data_ret.called
     /\ ActivityOnly(doc.units[1]))
    => EndpointsCarry(doc.units[1], doc.units[1].activity.candidateDistanceMeters)

(* C26, amended: the records carry the activity's own distanceMeters, and  *)
(* the type and probability of its top candidate, the numbers converted to *)
(* float, the same on both endpoint records.                               *)
C26_EndpointsCarryActivityDistance ==
    (/\ doc.top = "object" /\ Accepted /\ Len(doc.units) = 1 /\ data_ret.called
     /\ ActivityOnly(doc.units[1]))
    => /\ EndpointsCarry(doc.units[1], doc.units[1].activity.distanceMeters)
       /\ \A i, j \in DOMAIN ActivityRecords :
             \A f \in {"activity_distanceMeters", "activity_type", "activity_probability"} :
                ActivityRecords[i][f] = ActivityRecords[j][f]

\* both endpoints of an activity of 5.0 metres whose top candidate says 7.0
C26_Witness ==
    /\ doc.top = "object" /\ Accepted /\ Len(doc.units) = 1 /\ data_ret.called
    /\ ActivityOnly(doc.units[1])
    /\ doc.units[1].activity.candidateDistanceMeters = Float(7, 0)
    /\ Len(ActivityRecords) = 2
    /\ ActivityRecords[1].type = "activity_start" /\ ActivityRecords[2].type = "activity_end"
    /\ ActivityRecords[1].activity_distanceMeters = Float(5, 0)
    /\ ActivityRecords[2].activity_distanceMeters = Float(5, 0)
    /\ ActivityRecords[1].activity_type = Str("WALKING")
    /\ ActivityRecords[1].activity_probability = Float(0, 5000)

----------------------------------------------------------------------------
\* ISO-8601 text that parses
ValidTime(t) == t.k \in {"Z", "offset", "naive"}

\* a path point with a position in range and a time that parses
ValidPoint(pt) ==
    /\ Parseable(pt.point) /\ PositionInRange(pt.point)
    /\ ValidTime(pt.time)

\* a segment with a path whose points are all valid; its own times parse or
\* are missing
ValidPathSegment(u) ==
    /\ u.isMap /\ u.timelinePath.present
    /\ \A i \in DOMAIN u.timelinePath.pts : ValidPoint(u.timelinePath.pts[i])
    /\ ValidTime(u.startTime) \/ u.startTime.k = "absent"
    /\ ValidTime(u.endTime) \/ u.endTime.k = "absent"

\* the record C27 describes for the point pt of segment u
ExpectedPathRecord(u, pt) ==
    [type |-> "timelinePath",
     start_time |-> ColumnOf(u.startTime), end_time |-> ColumnOf(u.endTime),
     point_time |-> ColumnOf(pt.time),
     latitude |-> parse_android_coordinates(pt.point).lat,
     longitude |-> parse_android_coordinates(pt.point).lng,
     visit_probability |-> None, visit_placeId |-> None, visit_semanticType |-> None,
     activity_distanceMeters |-> None, activity_type |-> None,
     activity_probability |-> None, username |-> username,
     gpx_data_source |-> None, gpx_track_name |-> None, gpx_elevation |-> None,
     gpx_speed |-> None, gpx_point_sequence |-> None]

(* C27: an Android segment whose timelinePath has k points with valid      *)
(* coordinates and timestamps yields exactly k timelinePath records, in    *)
(* path order, the i-th with the i-th point's own time in UTC as           *)
(* point_time, the segment's times in UTC and the coordinates parsed from  *)
(* the i-th point's string; they come before the visit and activity        *)
(* records of the segment.                                                 *)
C27_PathRecordsInOrder ==
    (/\ doc.top = "object" /\ Accepted /\ Len(doc.units) = 1 /\ data_ret.called
     /\ ValidPathSegment(doc.units[1]))
    => /\ Len(OfType(data_ret.records, {"timelinePath"})) = Len(doc.units[1].timelinePath.pts)
       /\ Len(data_ret.records) >= Len(doc.units[1].timelinePath.pts)
       /\ \A i \in DOMAIN doc.units[1].timelinePath.pts :
             data_ret.records[i]
               = ExpectedPathRecord(doc.units[1], doc.units[1].timelinePath.pts[i])

\* two path points, then the visit and the activity's start
C27_Witness ==
    /\ doc.top = "object" /\ Accepted /\ Len(doc.units) = 1 /\ data_ret.called
    /\ ValidPathSegment(doc.units[1]) /\ Len(doc.units[1].timelinePath.pts) = 2
    /\ doc.units[1].visit.present /\ doc.units[1].activity.present
    /\ Len(data_ret.records) = 4
    /\ data_ret.records[1].point_time = Iso(11, 0) /\ data_ret.records[2].point_time = Iso(10, 0)
    /\ data_ret.records[1].start_time = Iso(-6, 0)
    /\ data_ret.records[1].latitude = Float(90, 0)
    /\ data_ret.records[3].type = "visit" /\ data_ret.records[4].type = "activity_start"

----------------------------------------------------------------------------
\* the documents the claim says each dialect's structure check accepts
AndroidStructure == doc.top = "object" /\ doc.hasSegments /\ doc.segmentsIsList
IphoneStructure ==
    /\ doc.top = "array"
    /\ doc.units # <<>> => (doc.units[1].isMap /\ doc.units[1].startTime.k # "absent")

\* the document is an empty sequence of the dialect
EmptyOf(tag) ==
    \/ tag = "android" /\ AndroidStructure /\ doc.units = <<>>
    \/ tag = "iphone" /\ doc.top = "array" /\ doc.units = <<>>

\* the verdict and the summary after a validate_json_structure call
StructureVerdict ==
    /\ ~scall'.raised
    /\ scall'.ok <=> \/ scall'.tag = "android" /\ AndroidStructure
                     \/ scall'.tag = "iphone" /\ IphoneStructure
    /\ scall'.ok <=> errors' = errors
    /\ ~scall'.ok => Len(errors') = Len(errors) + 1 /\ warnings' = warnings
    /\ EmptyOf(scall'.tag) => scall'.ok /\ Len(warnings') = Len(warnings) + 1
    /\ ~EmptyOf(scall'.tag) => warnings' = warnings

(* C28: validate_json_structure never raises and returns false exactly     *)
(* when it appended an error: for android when the document is not a       *)
(* mapping, lacks semanticSegments or semanticSegments is not a sequence;  *)
(* for iphone when the document is not a sequence or its first element is  *)
(* not a mapping containing startTime; for an unknown dialect tag.  An     *)
(* empty semanticSegments or an empty iPhone sequence appends a warning    *)
(* only and returns true.                                                  *)
C28_StructureVerdict == [][ValidateJsonStructure => StructureVerdict]_vars

\* an empty iPhone sequence accepted with a warning
C28_Witness ==
    /\ scall.op = "validate_json_structure" /\ scall.tag = "iphone" /\ scall.ok
    /\ doc = IphoneDoc(<<>>) /\ errors = <<>> /\ Len(warnings) >= 1

\* a refusal of each kind
C28_RefusedWitness ==
    /\ scall.op = "validate_json_structure" /\ ~scall.ok /\ scall.nerr = 1
    /\ \/ scall.tag = "gpx"
       \/ scall.tag = "iphone" /\ doc = IphoneDoc(<<NotAMapping>>)
       \/ scall.tag = "android" /\ doc.top = "object" /\ doc.hasSegments /\ ~doc.segmentsIsList

----------------------------------------------------------------------------
\* the records the processor of the document's dialect makes of unit i
UnitRecords(i) ==
    process_unit(IF doc.top = "object" THEN "android" ELSE "iphone",
                 doc.units[i], username, <<>>).records

\* the records of the first n units, one unit after the other
RECURSIVE RecordsOfUnits(_)
RecordsOfUnits(n) == IF n = 0 THEN <<>> ELSE RecordsOfUnits(n - 1) \o UnitRecords(n)

(* C29: parse_json_data never raises and is all-or-nothing: it returns the *)
(* complete list of the records of all units, or, when format detection,   *)
(* structure validation or the processing of a unit raises (a unit that is *)
(* not a mapping), the empty list, the records of earlier units discarded; *)
(* never a partial list.                                                   *)
C29_AllOrNothing ==
    data_ret.called
    => IF Accepted /\ AllMappings
       THEN data_ret.records = RecordsOfUnits(Len(doc.units))
       ELSE data_ret.records = <<>>

\* a valid visit followed by a unit that is not a mapping: nothing is returned
C29_Witness ==
    /\ data_ret.called /\ doc.top = "object" /\ Accepted
    /\ Len(doc.units) = 2 /\ ValidVisit(doc.units[1]) /\ ~doc.units[2].isMap
    /\ UnitRecords(1) # <<>>
    /\ data_ret.records = <<>>

\* two units, all their records returned
C29_CompleteWitness ==
    /\ data_ret.called /\ Accepted /\ AllMappings /\ Len(doc.units) = 2
    /\ UnitRecords(1) # <<>> /\ UnitRecords(2) # <<>>
    /\ data_ret.records = UnitRecords(1) \o UnitRecords(2)

----------------------------------------------------------------------------
\* the loads committed before the step are still there after it
CommittedStay ==
    /\ Len(copy_calls') >= Len(copy_calls)
    /\ SubSeq(copy_calls', 1, Len(copy_calls)) = copy_calls

\* the request has just failed: the step committed nothing and undid nothing
FailureKeepsCommitted ==
    (response.status = 0 /\ response'.status = 500) => copy_calls' = copy_calls

(* C30: in /fast-upload every batch is its own transaction: when the save  *)
(* of batch k fails, or the record stream raises after k-1 batches were    *)
(* saved, the k-1 earlier batches stay committed, batch k is not loaded    *)
(* and the request is answered 500.                                        *)
C30_BatchesCommitSeparately ==
    /\ [](response.status = 500
          => /\ ~response.has_totals
             /\ PartitionOfFirst(total_records - Len(batch))
             /\ \A c \in DOMAIN copy_calls : Len(copy_calls[c]) = BATCH_SIZE
             /\ \A i \in DOMAIN batch : batch[i] = BATCH_SIZE * Len(copy_calls) + i)
    /\ [][CommittedStay /\ FailureKeepsCommitted]_vars

\* the save of the second full batch failed: the first stays loaded
C30_Witness ==
    /\ response.status = 500 /\ total_records = 2000
    /\ Len(copy_calls) = 1 /\ Len(copy_calls[1]) = 1000 /\ Len(batch) = 1000

\* the stream raised, or the last save failed, after one batch and 500 records
C30_StreamErrorWitness ==
    /\ response.status = 500 /\ total_records = 1500
    /\ Len(copy_calls) = 1 /\ Len(batch) = 500

====
